---------------------------- MODULE Spec2Model ----------------------------
(***************************************************************************)
(* BlockV: a block device exported over TCP (blockv_server) and the FUSE   *)
(* client that proxies it (blockv_fuse).                                   *)
(*                                                                         *)
(* Sources modelled:                                                       *)
(*   src/blockv_protocol.hh        the wire structs and their conversions  *)
(*   src/unnamed/part_001:241-523  blockv_server (block_device, session)   *)
(*   src/blockv_fuse.cc:1-490      blockv_fuse (registry, remote device)   *)
(*                                                                         *)
(* Numbers.  TLC's integers stop at 2^31-1, so a C unsigned integer is a   *)
(* tuple of base-256 digits, most significant first: 4 digits for          *)
(* uint32_t, 8 for uint64_t/size_t.  Arithmetic on tuples of one length    *)
(* wraps modulo 256^length exactly as the C type does.                     *)
(***************************************************************************)
EXTENDS Integers, Sequences, FiniteSets, TLC

VARIABLES
    pstage, pin, pout,      \* a pure function under test: stage, input, output
    \* ---- blockv_server
    dev,                    \* the bytes of the disk image behind block_device
    read_only,              \* block_device::_read_only
    spc,                    \* where main/handle_client_requests is blocked
    peer,                   \* the client's end of the accepted connection
    c2s,                    \* bytes sent by the client, not yet read by the server
    s2c,                    \* the bytes the server's last step wrote to the client
    wr,                     \* the WRITE being collected: request, buf, counters
    sent,                   \* history: the messages the client sent on this connection
    ev,                     \* history: what the server's last step did
    lw,                     \* history: the last dev.write() call on this connection
    \* ---- blockv_fuse: the registry
    block_devices,          \* blockv_fuse::_block_devices, path -> device
    open_fds,               \* the sockets this process holds open
    fsev,                   \* history: the last filesystem operation
    \* ---- blockv_fuse: one network_block_device used by several threads
    nbd_mutex,              \* network_block_device::_mutex: its holder, or 0
    thr,                    \* per thread: where it is in read(), its locals
    to_server,              \* requests written to the socket, not yet answered
    from_server,            \* bytes the server wrote, not yet read by the client
    remote,                 \* the server's end of the connection
    \* ---- blockv_server: one block_device used by several threads
    _mutex,                 \* block_device::_mutex: exclusive owner, shared owners
    caller,                 \* per thread: where it is in read() or write()
    disk                    \* the bytes of the image behind _fd

pureVars == <<pstage, pin, pout>>
serverVars == <<dev, read_only, spc, peer, c2s, s2c, wr, sent, ev, lw>>
fuseVars == <<block_devices, open_fds, fsev>>
clientVars == <<nbd_mutex, thr, to_server, from_server, remote>>
deviceVars == <<_mutex, caller, disk>>
notPure == <<serverVars, fuseVars, clientVars, deviceVars>>
notServer == <<pureVars, fuseVars, clientVars, deviceVars>>
notFuse == <<pureVars, serverVars, clientVars, deviceVars>>
notClient == <<pureVars, serverVars, fuseVars, deviceVars>>
notDevice == <<pureVars, serverVars, fuseVars, clientVars>>
vars == <<pureVars, serverVars, fuseVars, clientVars, deviceVars>>

None == <<>>

\* no pure function is under test
PureIdle == pstage = "idle" /\ pin = None /\ pout = None

\* no filesystem is mounted
FuseIdle == block_devices = None /\ open_fds = {} /\ fsev = None

\* no remote device is in use
ClientIdle ==
    /\ nbd_mutex = 0
    /\ thr = None
    /\ to_server = <<>>
    /\ from_server = <<>>
    /\ remote = "none"

\* no block_device is shared between threads
DeviceIdle == _mutex = None /\ caller = None /\ disk = None

(***************************************************************************)
(* Fixed-width unsigned arithmetic on digit tuples                         *)
(***************************************************************************)
Byte == 0..255

Min(a, b) == IF a <= b THEN a ELSE b

Zeros(n) == [i \in 1..n |-> 0]

\* the value of a small natural as an n-digit number (k < 2^31)
RECURSIVE Pow256(_)
Pow256(e) == IF e = 0 THEN 1 ELSE 256 * Pow256(e - 1)

FromNat(k, n) ==
    [i \in 1..n |-> IF n - i >= 4 THEN 0 ELSE (k \div Pow256(n - i)) % 256]

\* a digit tuple whose value is below 2^31 is "small" and has a TLC integer
IsSmall(a) ==
    /\ \A i \in 1..Len(a) : Len(a) - i >= 4 => a[i] = 0
    /\ Len(a) >= 4 => a[Len(a) - 3] < 128

RECURSIVE ToNatUpTo(_, _)
ToNatUpTo(a, i) == IF i = 0 THEN 0 ELSE 256 * ToNatUpTo(a, i - 1) + a[i]

ToNat(a) == ToNatUpTo(a, Len(a))

\* a < b, both of one length
NumLt(a, b) ==
    \E i \in 1..Len(a) : a[i] < b[i] /\ \A j \in 1..(i - 1) : a[j] = b[j]

NumLe(a, b) == a = b \/ NumLt(a, b)

\* the carry into digit i of a + b
RECURSIVE CarryIn(_, _, _)
CarryIn(a, b, i) ==
    IF i = Len(a) THEN 0
    ELSE (a[i + 1] + b[i + 1] + CarryIn(a, b, i + 1)) \div 256

\* (a + b) mod 256^Len(a)
NumAdd(a, b) == [i \in 1..Len(a) |-> (a[i] + b[i] + CarryIn(a, b, i)) % 256]

\* the borrow out of digit i+1 of a - b
RECURSIVE BorrowIn(_, _, _)
BorrowIn(a, b, i) ==
    IF i = Len(a) THEN 0
    ELSE IF a[i + 1] - b[i + 1] - BorrowIn(a, b, i + 1) < 0 THEN 1 ELSE 0

\* (a - b) mod 256^Len(a)
NumSub(a, b) == [i \in 1..Len(a) |-> (a[i] - b[i] - BorrowIn(a, b, i)) % 256]

\* conversions between widths: zero extension, truncation to the low n digits
Widen(a, n) == Zeros(n - Len(a)) \o a
Trunc(a, n) == SubSeq(a, Len(a) - n + 1, Len(a))

U32(k) == FromNat(k, 4)
U64(k) == FromNat(k, 8)

(***************************************************************************)
(* blockv_protocol.hh: the wire structs                                    *)
(*                                                                         *)
(* A struct is a record of its fields, each uint32_t field the value the   *)
(* host holds in it.  The host is little-endian (x86), so htonl reverses   *)
(* the bytes of a value, and a packed struct written to a socket puts each *)
(* field's least significant byte first.                                   *)
(***************************************************************************)
BLOCKV_MAGIC_BYTE == 176                                    \* 0xB0
BLOCKV_MAGIC_VALUE == <<BLOCKV_MAGIC_BYTE, BLOCKV_MAGIC_BYTE,
                        BLOCKV_MAGIC_BYTE, BLOCKV_MAGIC_BYTE>>

FIRST == 176
READ == 177
WRITE == 178
FINISH == 179
LAST == FINISH + 1

htonl(v) == <<v[4], v[3], v[2], v[1]>>
ntohl(v) == <<v[4], v[3], v[2], v[1]>>

\* the bytes a uint32_t field occupies in a packed struct, and back
MemBytes(v) == <<v[4], v[3], v[2], v[1]>>
FromMem(b) == <<b[4], b[3], b[2], b[1]>>

\* ---- blockv_server_info
server_info_serialized_size == 9

server_info_to_network(device_size, ro) ==
    [magic_value |-> htonl(BLOCKV_MAGIC_VALUE),
     device_size |-> htonl(device_size),
     read_only   |-> IF ro THEN 1 ELSE 0]

\* a to_host that converts the magic value only
server_info_to_host_magic_only(server_info) ==
    [server_info EXCEPT !.magic_value = ntohl(@)]

server_info_to_host(server_info) ==
    [server_info EXCEPT !.magic_value = ntohl(@), !.device_size = ntohl(@)]

server_info_is_valid_first_byte(server_info) ==
    server_info.magic_value[1] = BLOCKV_MAGIC_BYTE

server_info_is_valid(server_info) ==
    server_info.magic_value = BLOCKV_MAGIC_VALUE

\* a struct written without its last field
server_info_bytes_no_flag(s) ==
    MemBytes(s.magic_value) \o MemBytes(s.device_size)

server_info_bytes(s) ==
    MemBytes(s.magic_value) \o MemBytes(s.device_size) \o <<s.read_only>>

\* the cast (blockv_server_info*) buf of a buffer holding 9 bytes
server_info_cast(b) ==
    [magic_value |-> FromMem(SubSeq(b, 1, 4)),
     device_size |-> FromMem(SubSeq(b, 5, 8)),
     read_only   |-> b[9]]

\* ---- blockv_read_request
read_request_serialized_size == 9

read_request_to_network(size, offset) ==
    [request |-> READ, size |-> htonl(size), offset |-> htonl(offset)]

read_request_to_host_size_only(read_request) ==
    [read_request EXCEPT !.size = ntohl(@)]

read_request_to_host(read_request) ==
    [read_request EXCEPT !.size = ntohl(@), !.offset = ntohl(@)]

read_request_bytes(r) ==
    <<r.request>> \o MemBytes(r.size) \o MemBytes(r.offset)

\* the cast (blockv_read_request*) buffer; the buffer holds at least 9 bytes
read_request_cast(b) ==
    [request |-> b[1],
     size    |-> FromMem(SubSeq(b, 2, 5)),
     offset  |-> FromMem(SubSeq(b, 6, 9))]

\* ---- blockv_read_response
read_response_metadata_size == 4

read_response_to_network(buf_size) ==
    [size |-> htonl(buf_size)]

read_response_set_size_to_network(read_response, new_size) ==
    [read_response EXCEPT !.size = htonl(new_size)]

read_response_to_host(read_response) ==
    [read_response EXCEPT !.size = ntohl(@)]

\* ---- blockv_write_request
write_request_to_network(buf, buf_size, off) ==
    [request |-> WRITE, size |-> htonl(buf_size), offset |-> htonl(off),
     buf |-> buf]

write_request_to_host(write_request) ==
    [write_request EXCEPT !.size = ntohl(@), !.offset = ntohl(@)]

write_request_bytes(w) ==
    <<w.request>> \o MemBytes(w.size) \o MemBytes(w.offset) \o w.buf

\* write_request::serialized_size(0): the 9 bytes before buf[]
write_request_header_size == 9

\* ---- blockv_write_response
write_response_serialized_size == 4

\* a response left in host byte order
write_response_to_network_unconverted(size) == [size |-> size]

write_response_to_network(size) == [size |-> htonl(size)]

write_response_to_host(write_response) ==
    [write_response EXCEPT !.size = ntohl(@)]

\* ---- blockv_request
request_is_valid_from_first(request) == request >= FIRST /\ request < LAST

request_is_valid(request) == request > FIRST /\ request < LAST

(***************************************************************************)
(* blockv_server: block_device                                             *)
(***************************************************************************)
\* size is uint32_t; offset and _block_device_size are uint64_t, so the sum
\* and the comparisons are 64-bit; the assignment to size truncates.
get_actual_size_no_clamp(size, offset, block_device_size) ==
    IF NumLt(offset, block_device_size)
    THEN IF NumLt(NumAdd(offset, Widen(size, 8)), offset) THEN U32(0) ELSE size
    ELSE U32(0)

get_actual_size(size, offset, block_device_size) ==
    IF NumLt(offset, block_device_size)
    THEN LET end == NumAdd(offset, Widen(size, 8)) IN
         IF NumLt(end, offset) THEN U32(0)
         ELSE IF NumLt(block_device_size, end)
              THEN Trunc(NumSub(block_device_size, offset), 4)
              ELSE size
    ELSE U32(0)

ImageSize == 2            \* bytes in the disk image

BUFFER_SIZE == 4096       \* char buffer[4096]

block_device_size == U64(Len(dev))   \* _block_device_size, the image's st_size

\* pread(_fd, buf, n, offset) on the image: the n bytes from offset on
Pread(image, n, offset) ==
    IF n = 0 THEN <<>>
    ELSE SubSeq(image, ToNat(offset) + 1, ToNat(offset) + n)

\* pwrite(_fd, buf, n, offset): the image with buf[0..n) stored from offset on
Pwrite(image, buf, n, offset) ==
    IF n = 0 THEN image
    ELSE [i \in 1..Len(image) |->
             IF i > ToNat(offset) /\ i <= ToNat(offset) + n
             THEN buf[i - ToNat(offset)] ELSE image[i]]

\* block_device::read; ok is whether pread succeeds
block_device_read_unclamped(size, offset, ok) ==
    IF ok /\ IsSmall(offset) /\ ToNat(offset) < Len(dev)
    THEN LET n == Min(IF IsSmall(size) THEN ToNat(size) ELSE Len(dev), Len(dev)) IN
         [ret |-> n, buf |-> SubSeq(dev, 1, n)]
    ELSE [ret |-> 0, buf |-> <<>>]

block_device_read(size, offset, ok) ==
    LET n == ToNat(get_actual_size(size, Widen(offset, 8), block_device_size)) IN
    IF ok THEN [ret |-> n, buf |-> Pread(dev, n, Widen(offset, 8))]
    ELSE [ret |-> 0, buf |-> <<>>]

\* block_device::write; ok is whether pwrite succeeds
block_device_write(buf, size, offset, ok) ==
    LET n == ToNat(get_actual_size(size, Widen(offset, 8), block_device_size)) IN
    IF ok THEN [ret |-> n, image |-> Pwrite(dev, buf, n, Widen(offset, 8))]
    ELSE [ret |-> 0, image |-> dev]

(***************************************************************************)
(* blockv_server: main's accept loop and handle_client_requests            *)
(*                                                                         *)
(* The server is single-threaded and blocks in accept() and in read().     *)
(* One action is the code from one blocking call to the next.  A read()    *)
(* on the stream returns any non-empty prefix of the bytes in flight (TCP  *)
(* keeps no message boundaries), 0 once the peer has closed and nothing is *)
(* left, -1 once after the peer reset the connection.  write() on the      *)
(* socket is taken to send all it is given.                                *)
(***************************************************************************)
Message(kind, size, offset, buf) ==
    [kind |-> kind, size |-> size, offset |-> offset, buf |-> buf]

GARBAGE == 66             \* 0x42, no request kind

\* what the client sends on one connection: a prefix of one of these
ReadAll == Message(READ, U32(ImageSize), U32(0), <<>>)
ReadPastEnd == Message(READ, U32(ImageSize + 1), U32(1), <<>>)
ReadAtEnd == Message(READ, U32(1), U32(ImageSize), <<>>)
WriteAll == Message(WRITE, U32(2), U32(0), <<READ, 7>>)
WritePastEnd == Message(WRITE, U32(2), U32(ImageSize - 1), <<7, 8>>)
Finish == Message(FINISH, U32(0), U32(0), <<>>)
Garbage == Message(GARBAGE, U32(0), U32(0), <<>>)

Scripts ==
    {<<WriteAll, ReadAll>>, <<ReadPastEnd, ReadAtEnd>>,
     <<WritePastEnd, Finish>>, <<Garbage, ReadAll>>, <<ReadAll, Garbage>>,
     <<WriteAll, WritePastEnd>>, <<Finish, ReadAll>>}

\* the bytes the client's write() puts on the stream for a message
MessageBytes(m) ==
    CASE m.kind = READ ->
             read_request_bytes(read_request_to_network(m.size, m.offset))
      [] m.kind = WRITE ->
             write_request_bytes(
                 write_request_to_network(m.buf, m.size, m.offset))
      [] OTHER -> <<m.kind>>

Event(op, ret, kind, size, offset, n, data, failed) ==
    [op |-> op, ret |-> ret, kind |-> kind, size |-> size, offset |-> offset,
     n |-> n, data |-> data, failed |-> failed]

NoEvent == Event("none", 0, 0, U32(0), U32(0), 0, <<>>, FALSE)

NoWriteRequest ==
    [active |-> FALSE, size |-> U32(0), offset |-> U32(0), buf |-> <<>>,
     remaining_bytes |-> U64(0), buf_offset |-> U32(0), arrived |-> <<>>,
     overflowed |-> FALSE, first_ret |-> 0]

NoDevWrite ==
    [called |-> FALSE, buf |-> <<>>, size |-> U32(0), offset |-> U32(0),
     arrived |-> <<>>, remaining_bytes |-> U64(0), ret |-> 0,
     before |-> <<>>, failed |-> FALSE, first_ret |-> 0]

\* the first 9 bytes and more of buffer[] after bzero and a read() of data
Buffer(data) ==
    data \o Zeros(IF Len(data) < write_request_header_size
                  THEN write_request_header_size - Len(data) ELSE 0)

\* a server that serves one connection and exits
EndSessionExit ==
    /\ spc' = "exited"
    /\ c2s' = <<>>
    /\ UNCHANGED peer
    /\ wr' = NoWriteRequest

\* break out of the request loop; main closes comm_fd and accepts again
EndSession ==
    /\ spc' = "accept"
    /\ c2s' = <<>>
    /\ UNCHANGED peer
    /\ wr' = NoWriteRequest

\* to_network(dev.size(), dev.read_only()): the uint64_t size is converted to
\* the uint32_t parameter; the 9 bytes of the struct are written
server_info_sent(size, ro) ==
    server_info_bytes(server_info_to_network(Trunc(size, 4), ro))

Accept ==
    /\ spc = "accept"
    /\ spc' = "dispatch"
    /\ peer' = "open"
    /\ c2s' = <<>>
    /\ sent' = <<>>
    /\ wr' = NoWriteRequest
    /\ s2c' = server_info_sent(block_device_size, read_only)
    /\ lw' = NoDevWrite
    /\ ev' = Event("greet", 0, 0, U32(0), U32(0), 0, <<>>, FALSE)
    /\ UNCHANGED <<dev, read_only, notServer>>

\* ---- the client's end of the connection
ClientSend ==
    /\ spc \in {"dispatch", "collect"}
    /\ peer = "open"
    /\ \E script \in Scripts :
          /\ Len(sent) < Len(script)
          /\ sent = SubSeq(script, 1, Len(sent))
          /\ c2s' = c2s \o MessageBytes(script[Len(sent) + 1])
          /\ sent' = Append(sent, script[Len(sent) + 1])
    /\ UNCHANGED <<dev, read_only, spc, peer, s2c, wr, ev, lw, notServer>>

ClientClose ==
    /\ spc \in {"dispatch", "collect"}
    /\ peer = "open"
    /\ peer' = "closed"
    /\ UNCHANGED <<dev, read_only, spc, c2s, s2c, wr, sent, ev, lw, notServer>>

ClientReset ==
    /\ spc \in {"dispatch", "collect"}
    /\ peer = "open"
    /\ peer' = "reset"
    /\ c2s' = <<>>
    /\ UNCHANGED <<dev, read_only, spc, s2c, wr, sent, ev, lw, notServer>>

\* ---- ret = read(comm_fd, buffer, sizeof(buffer)) at the top of the loop
Received(k) ==
    /\ spc = "dispatch"
    /\ k \in 1..Min(Len(c2s), BUFFER_SIZE)

Rest(k) == SubSeq(c2s, k + 1, Len(c2s))

\* a read() of 0 bytes that is taken for a request and skipped
ClientDisconnectedSkipped ==
    /\ spc = "dispatch"
    /\ c2s = <<>>
    /\ peer = "closed"
    /\ ev' = Event("skip", 0, 0, U32(0), U32(0), 0, <<>>, FALSE)
    /\ s2c' = <<>>
    /\ UNCHANGED <<dev, read_only, spc, peer, c2s, wr, sent, lw, notServer>>

ClientDisconnected ==
    /\ spc = "dispatch"
    /\ c2s = <<>>
    /\ peer = "closed"
    /\ EndSession
    /\ ev' = Event("eof", 0, 0, U32(0), U32(0), 0, <<>>, FALSE)
    /\ s2c' = <<>>
    /\ UNCHANGED <<dev, read_only, sent, lw, notServer>>

\* a first byte that is none of READ, WRITE, FINISH: the session ends when
\* is_valid() rejects it, and the loop goes on when it does not
Unhandled(ret, kind, rest) ==
    /\ kind \notin {READ, WRITE, FINISH}
    /\ IF request_is_valid(kind)
       THEN /\ c2s' = rest
            /\ UNCHANGED <<spc, peer, wr>>
       ELSE EndSession
    /\ ev' = Event(IF request_is_valid(kind) THEN "skip" ELSE "invalid",
                   ret, kind, U32(0), U32(0), 0, <<>>, FALSE)
    /\ s2c' = <<>>
    /\ UNCHANGED <<dev, read_only, sent, lw, notServer>>

RequestInvalid ==
    \E k \in 1..Len(c2s) :
        /\ Received(k)
        /\ Unhandled(k, c2s[1], Rest(k))

\* read() fails with ECONNRESET: ret = -1 and buffer[] is all zeros
ReadError ==
    /\ spc = "dispatch"
    /\ c2s = <<>>
    /\ peer = "reset"
    /\ Unhandled(-1, 0, <<>>)

HandleRead ==
    \E k \in 1..Len(c2s), alloc_ok \in BOOLEAN, pread_ok \in BOOLEAN :
        /\ Received(k)
        /\ request_is_valid(c2s[1])
        /\ c2s[1] = READ
        /\ LET rq == read_request_to_host(
                         read_request_cast(Buffer(SubSeq(c2s, 1, k))))
               r == block_device_read(rq.size, rq.offset, pread_ok)
               response == read_response_set_size_to_network(
                               read_response_to_network(rq.size), U32(r.ret))
           IN IF alloc_ok
              THEN /\ c2s' = Rest(k)
                   /\ s2c' = MemBytes(response.size)
                                \o SubSeq(r.buf, 1, ToNat(ntohl(response.size)))
                   /\ ev' = Event("read", k, READ, rq.size, rq.offset,
                                  r.ret, r.buf, ~pread_ok)
                   /\ UNCHANGED <<spc, peer, wr>>
              ELSE /\ EndSession
                   /\ ev' = Event("alloc_fail", k, READ, rq.size, rq.offset,
                                  0, <<>>, FALSE)
                   /\ s2c' = <<>>
        /\ UNCHANGED <<dev, read_only, sent, lw, notServer>>

\* a FINISH that is acknowledged with one byte
HandleFinishAcknowledged ==
    \E k \in 1..Len(c2s) :
        /\ Received(k)
        /\ request_is_valid(c2s[1])
        /\ c2s[1] = FINISH
        /\ EndSession
        /\ ev' = Event("finish", k, FINISH, U32(0), U32(0), 0, <<>>, FALSE)
        /\ s2c' = <<FINISH>>
        /\ UNCHANGED <<dev, read_only, sent, lw, notServer>>

HandleFinish ==
    \E k \in 1..Len(c2s) :
        /\ Received(k)
        /\ request_is_valid(c2s[1])
        /\ c2s[1] = FINISH
        /\ EndSession
        /\ ev' = Event("finish", k, FINISH, U32(0), U32(0), 0, <<>>, FALSE)
        /\ s2c' = <<>>
        /\ UNCHANGED <<dev, read_only, sent, lw, notServer>>

\* if (dev.read_only()) continue;
HandleWriteReadOnly ==
    \E k \in 1..Len(c2s) :
        /\ Received(k)
        /\ request_is_valid(c2s[1])
        /\ c2s[1] = WRITE
        /\ read_only
        /\ c2s' = Rest(k)
        /\ ev' = Event("drop", k, WRITE, U32(0), U32(0), 0, <<>>, FALSE)
        /\ s2c' = <<>>
        /\ UNCHANGED <<dev, read_only, spc, peer, wr, sent, lw, notServer>>

\* ---- WRITE on a writable device
\* uint32_t buf_size_in_this_message = ret - serialized_size(0): the difference
\* is taken in size_t and wraps when ret < 9
buf_size_in_this_message(ret) ==
    Trunc(NumSub(U64(ret), U64(write_request_header_size)), 4)

\* int64_t remaining_bytes = write_request->size - buf_size_in_this_message:
\* a uint32_t difference, which wraps, widened
initial_remaining_bytes(size, in_this_message) ==
    Widen(NumSub(size, in_this_message), 8)

\* a copy that ignores the offset
MemcpyAtStart(buf, offset, chunk) ==
    [i \in 1..(IF Len(buf) > Len(chunk) THEN Len(buf) ELSE Len(chunk)) |->
        IF i <= Len(chunk) THEN chunk[i] ELSE buf[i]]

\* memcpy(buf + offset, chunk, Len(chunk)); -1 is a byte never written
MemcpyAt(buf, offset, chunk) ==
    IF ~IsSmall(offset) THEN buf
    ELSE LET o == ToNat(offset)
             top == IF Len(buf) > o + Len(chunk) THEN Len(buf)
                    ELSE o + Len(chunk)
         IN [i \in 1..top |->
                IF i > o /\ i <= o + Len(chunk) THEN chunk[i - o]
                ELSE IF i <= Len(buf) THEN buf[i] ELSE -1]

\* the largest count read(comm_fd, buf + offset, remaining_bytes) can return
MaxChunk(remaining_bytes) ==
    IF IsSmall(remaining_bytes) THEN Min(Len(c2s), ToNat(remaining_bytes))
    ELSE Len(c2s)

WriteHeader(k) ==
    write_request_to_host(
        [request |-> c2s[1],
         size    |-> FromMem(SubSeq(Buffer(SubSeq(c2s, 1, k)), 2, 5)),
         offset  |-> FromMem(SubSeq(Buffer(SubSeq(c2s, 1, k)), 6, 9)),
         buf     |-> SubSeq(c2s, write_request_header_size + 1, k)])

WriteReceived(k) ==
    /\ Received(k)
    /\ request_is_valid(c2s[1])
    /\ c2s[1] = WRITE
    /\ ~read_only

\* a loop that stops one byte early
Positive64AboveOne(x) == x # U64(0) /\ x # U64(1) /\ x[1] < 128

\* while (remaining_bytes > 0), on the int64_t the digits stand for
Positive64(x) == x # U64(0) /\ x[1] < 128

\* the loop is left (read() never returns more than it was asked for, so
\* remaining_bytes is not negative here): dev.write, then the response
FinishWrite(w, ret, rest, pwrite_ok) ==
    LET r == block_device_write(w.buf, w.size, w.offset, pwrite_ok)
        response == write_response_to_network(w.size)
    IN /\ dev' = r.image
       /\ s2c' = MemBytes(response.size)
       /\ c2s' = rest
       /\ spc' = "dispatch"
       /\ wr' = NoWriteRequest
       /\ lw' = [called |-> TRUE, buf |-> w.buf, size |-> w.size,
                 offset |-> w.offset, arrived |-> w.arrived,
                 remaining_bytes |-> w.remaining_bytes, ret |-> r.ret,
                 before |-> dev, failed |-> ~pwrite_ok,
                 first_ret |-> w.first_ret]
       /\ ev' = Event("write", ret, WRITE, w.size, w.offset, r.ret, w.buf,
                      ~pwrite_ok)
       /\ UNCHANGED <<read_only, peer, sent, notServer>>

\* new (std::nothrow) char[size] returns null
HandleWriteAllocFailure ==
    \E k \in 1..Len(c2s) :
        /\ WriteReceived(k)
        /\ EndSession
        /\ ev' = Event("alloc_fail", k, WRITE, WriteHeader(k).size,
                       WriteHeader(k).offset, 0, <<>>, FALSE)
        /\ s2c' = <<>>
        /\ UNCHANGED <<dev, read_only, sent, lw, notServer>>

\* the first memcpy stays inside buffer[] and inside the allocation
CopyInBounds(k) ==
    /\ NumLe(buf_size_in_this_message(k),
             U32(BUFFER_SIZE - write_request_header_size))
    /\ NumLe(buf_size_in_this_message(k), WriteHeader(k).size)

Collecting(k) ==
    LET rq == WriteHeader(k)
        in_this_message == buf_size_in_this_message(k)
    IN [active |-> TRUE, size |-> rq.size, offset |-> rq.offset,
        buf |-> MemcpyAt(<<>>, U32(0), rq.buf),
        remaining_bytes |-> initial_remaining_bytes(rq.size, in_this_message),
        buf_offset |-> in_this_message,
        arrived |-> <<rq.buf>>,
        overflowed |-> ~CopyInBounds(k),
        first_ret |-> k]

\* memcpy copies more than buffer[] holds or than was allocated: undefined.
\* A copy of nearly 4 GiB (ret < 9) runs off the stack and the process dies; a
\* copy a few bytes past the allocation either kills the process or goes
\* unnoticed, and the loop then waits for the wrapped remaining_bytes.
HandleWriteOutOfBounds ==
    \E k \in 1..Len(c2s), dies \in BOOLEAN :
        /\ WriteReceived(k)
        /\ ~CopyInBounds(k)
        /\ dies \/ k >= write_request_header_size
        /\ IF dies
           THEN /\ spc' = "crashed"
                /\ c2s' = <<>>
                /\ wr' = NoWriteRequest
                /\ UNCHANGED peer
           ELSE /\ spc' = "collect"
                /\ c2s' = Rest(k)
                /\ wr' = Collecting(k)
                /\ UNCHANGED peer
        /\ ev' = Event("out_of_bounds", k, WRITE, WriteHeader(k).size,
                       WriteHeader(k).offset, 0, <<>>, FALSE)
        /\ s2c' = <<>>
        /\ UNCHANGED <<dev, read_only, sent, lw, notServer>>

\* the whole payload came with the header: the loop body never runs
HandleWriteWhole ==
    \E k \in 1..Len(c2s), pwrite_ok \in BOOLEAN :
        /\ WriteReceived(k)
        /\ CopyInBounds(k)
        /\ ~Positive64(Collecting(k).remaining_bytes)
        /\ FinishWrite(Collecting(k), k, Rest(k), pwrite_ok)

\* part of the payload is missing: enter the while loop and block in read()
HandleWritePartial ==
    \E k \in 1..Len(c2s) :
        /\ WriteReceived(k)
        /\ CopyInBounds(k)
        /\ Positive64(Collecting(k).remaining_bytes)
        /\ spc' = "collect"
        /\ c2s' = Rest(k)
        /\ wr' = Collecting(k)
        /\ ev' = Event("partial", k, WRITE, WriteHeader(k).size,
                       WriteHeader(k).offset, 0, <<>>, FALSE)
        /\ s2c' = <<>>
        /\ UNCHANGED <<dev, read_only, peer, sent, lw, notServer>>

\* ---- ret = read(comm_fd, buf.get() + offset, remaining_bytes) in the loop
Collected(k) ==
    [wr EXCEPT !.buf = MemcpyAt(wr.buf, wr.buf_offset, SubSeq(c2s, 1, k)),
               !.remaining_bytes = NumSub(@, U64(k)),
               !.buf_offset = NumAdd(@, U32(k)),
               !.arrived = Append(@, SubSeq(c2s, 1, k)),
               !.overflowed = @ \/ NumLt(wr.size, NumAdd(wr.buf_offset, U32(k)))]

CollectMore ==
    \E k \in 1..Len(c2s) :
        /\ spc = "collect"
        /\ k <= MaxChunk(wr.remaining_bytes)
        /\ Positive64(Collected(k).remaining_bytes)
        /\ wr' = Collected(k)
        /\ c2s' = Rest(k)
        /\ ev' = Event("chunk", k, WRITE, wr.size, wr.offset, 0, <<>>, FALSE)
        /\ s2c' = <<>>
        /\ UNCHANGED <<dev, read_only, spc, peer, sent, lw, notServer>>

CollectLast ==
    \E k \in 1..Len(c2s), pwrite_ok \in BOOLEAN :
        /\ spc = "collect"
        /\ k <= MaxChunk(wr.remaining_bytes)
        /\ ~Positive64(Collected(k).remaining_bytes)
        /\ FinishWrite(Collected(k), k, Rest(k), pwrite_ok)

\* the peer has closed: read() returns 0, nothing changes, the loop goes round
CollectEof ==
    /\ spc = "collect"
    /\ c2s = <<>>
    /\ peer = "closed"
    /\ ev' = Event("spin", 0, WRITE, wr.size, wr.offset, 0, <<>>, FALSE)
    /\ s2c' = <<>>
    /\ UNCHANGED <<dev, read_only, spc, peer, c2s, wr, sent, lw, notServer>>

\* the peer reset the connection: read() returns -1 once, which the loop
\* subtracts from remaining_bytes and adds to offset
CollectError ==
    /\ spc = "collect"
    /\ c2s = <<>>
    /\ peer = "reset"
    /\ peer' = "closed"
    /\ wr' = [wr EXCEPT !.remaining_bytes = NumAdd(@, U64(1)),
                        !.buf_offset = NumSub(@, U32(1))]
    /\ ev' = Event("chunk", -1, WRITE, wr.size, wr.offset, 0, <<>>, FALSE)
    /\ s2c' = <<>>
    /\ UNCHANGED <<dev, read_only, spc, c2s, sent, lw, notServer>>

InitialImages ==
    {[i \in 1..ImageSize |-> 0], [i \in 1..ImageSize |-> 10 + i]}

ServerInit ==
    /\ dev \in InitialImages
    /\ read_only \in BOOLEAN
    /\ spc = "accept"
    /\ peer = "none"
    /\ c2s = <<>>
    /\ s2c = <<>>
    /\ wr = NoWriteRequest
    /\ sent = <<>>
    /\ ev = NoEvent
    /\ lw = NoDevWrite
    /\ DeviceIdle
    /\ PureIdle
    /\ FuseIdle
    /\ ClientIdle

ServerIdle ==
    /\ dev = <<>>
    /\ read_only = FALSE
    /\ spc = "idle"
    /\ peer = "none"
    /\ c2s = <<>>
    /\ s2c = <<>>
    /\ wr = NoWriteRequest
    /\ sent = <<>>
    /\ ev = NoEvent
    /\ lw = NoDevWrite

ServerNext ==
    \/ Accept
    \/ ClientSend \/ ClientClose \/ ClientReset
    \/ ClientDisconnected \/ RequestInvalid \/ ReadError
    \/ HandleRead \/ HandleFinish \/ HandleWriteReadOnly
    \/ HandleWriteAllocFailure \/ HandleWriteOutOfBounds
    \/ HandleWriteWhole \/ HandleWritePartial
    \/ CollectMore \/ CollectLast \/ CollectEof \/ CollectError

(***************************************************************************)
(* blockv_fuse: the device registry and the filesystem operations          *)
(*                                                                         *)
(* A filesystem operation runs from entry to return as one action; what    *)
(* the system and the server do during it (socket(), connect(), the        *)
(* allocation, the bytes read() delivers) is chosen with \E.               *)
(***************************************************************************)
EPERM == 1
ENOENT == 2
EIO == 5
EBADF == 9
EEXIST == 17

Paths == {"/a", "/b"}
Targets == {"disk"}

NoDevice == [kind |-> "none"]

\* new memory_based_block_device(): no content yet
\* allocated: _block_device_content is not nullptr
memory_based_block_device ==
    [kind |-> "memory", size |-> 0, content |-> <<>>, allocated |-> FALSE]

network_block_device(server_connection, target) ==
    [kind |-> "network", target |-> target,
     sockfd |-> server_connection.sockfd,
     server_info |-> server_connection.server_info]

\* _block_devices.find(path): nullptr when there is no such key
get_block_device(path) ==
    IF path \in DOMAIN block_devices THEN block_devices[path] ELSE NoDevice

\* an exists that knows memory devices only
block_device_exists_memory(path) == get_block_device(path).kind = "memory"

block_device_exists(path) == get_block_device(path) # NoDevice

\* unordered_map::emplace: no effect when the key is present
Emplace(path, device) ==
    IF block_devices[path] # NoDevice THEN block_devices
    ELSE [block_devices EXCEPT ![path] = device]

add_memory_based_block_device(path) == Emplace(path, memory_based_block_device)

add_network_based_block_device(path, server_connection, target) ==
    Emplace(path, network_block_device(server_connection, target))

\* socket() returns the lowest descriptor not in use
FirstFd == 3
NextFd == CHOOSE fd \in FirstFd..(FirstFd + Cardinality(open_fds)) :
              /\ fd \notin open_fds
              /\ \A other \in FirstFd..(fd - 1) : other \in open_fds

\* what the server's end may put on the new connection
Greetings ==
    {server_info_bytes(server_info_to_network(U32(ImageSize), FALSE)),
     server_info_bytes(server_info_to_network(U32(ImageSize), TRUE)),
     <<222, 173, 190, 239, 0, 0, 0, 2, 0>>,
     <<176, 176, 176, 177, 0, 0, 0, 2, 0>>,
     <<176, 0, 0, 0, 0, 0, 0, 2, 0>>}

\* connect_to_blockv_server: ret is what read(sockfd, buf, 9) returned and
\* received the bytes it stored; the result says whether a socket was opened,
\* whether it was closed again, and the connection handed back on success
ConnectFailed(opened) ==
    [ret |-> -1, opened |-> opened, closed |-> opened,
     server_connection |-> [server_info |-> None, sockfd |-> -1]]

connect_to_blockv_server_leak(sockfd, socket_ok, connect_ok, alloc_ok, ret, received) ==
    IF socket_ok /\ connect_ok /\ alloc_ok /\ ret = server_info_serialized_size
    THEN [ret |-> IF server_info_is_valid(
                         server_info_to_host(server_info_cast(received)))
                  THEN 0 ELSE -1,
          opened |-> TRUE, closed |-> FALSE,
          server_connection |->
              [server_info |-> server_info_to_host(server_info_cast(received)),
               sockfd |-> sockfd]]
    ELSE ConnectFailed(socket_ok)

connect_to_blockv_server(sockfd, socket_ok, connect_ok, alloc_ok, ret, received) ==
    IF ~socket_ok THEN ConnectFailed(FALSE)
    ELSE IF ~connect_ok THEN ConnectFailed(TRUE)
    ELSE IF ~alloc_ok THEN ConnectFailed(TRUE)
    ELSE IF ret # server_info_serialized_size THEN ConnectFailed(TRUE)
    ELSE LET server_info == server_info_to_host(server_info_cast(received)) IN
         IF ~server_info_is_valid(server_info) THEN ConnectFailed(TRUE)
         ELSE [ret |-> 0, opened |-> TRUE, closed |-> FALSE,
               server_connection |->
                   [server_info |-> server_info, sockfd |-> sockfd]]

\* a memcpy outside a device's content has killed the process
Crashed == fsev.op \in {"read", "write"} /\ fsev.overrun

FsEvent(op, path, ret, connect, received) ==
    [op |-> op, path |-> path, ret |-> ret, connect |-> connect,
     received |-> received, before |-> block_devices, fds |-> open_fds,
     sockfd |-> NextFd]

\* a create that takes every path as new: no O_EXCL test, the entry replaced
fs_create_anew ==
    \E path \in Paths, exclusive \in BOOLEAN :
        /\ ~Crashed
        /\ block_devices' =
               [block_devices EXCEPT ![path] = memory_based_block_device]
        /\ fsev' = [exclusive |-> exclusive]
                      @@ FsEvent("create", path, 0, [called |-> FALSE], <<>>)
        /\ UNCHANGED <<open_fds, notFuse>>

\* a create that calls remove_block_device when O_EXCL finds an entry
fs_create_removing ==
    \E path \in Paths, exclusive \in BOOLEAN :
        /\ ~Crashed
        /\ block_devices' =
               IF ~block_device_exists(path)
               THEN add_memory_based_block_device(path)
               ELSE IF exclusive THEN [block_devices EXCEPT ![path] = NoDevice]
               ELSE block_devices
        /\ fsev' = [exclusive |-> exclusive]
                      @@ FsEvent("create", path,
                                 IF block_device_exists(path) /\ exclusive
                                 THEN -EEXIST ELSE 0,
                                 [called |-> FALSE], <<>>)
        /\ UNCHANGED <<open_fds, notFuse>>

fs_create ==
    \E path \in Paths, exclusive \in BOOLEAN :
        /\ ~Crashed
        /\ block_devices' = IF block_device_exists(path) THEN block_devices
                            ELSE add_memory_based_block_device(path)
        /\ fsev' = [exclusive |-> exclusive]
                      @@ FsEvent("create", path,
                                 IF block_device_exists(path) /\ exclusive
                                 THEN -EEXIST ELSE 0,
                                 [called |-> FALSE], <<>>)
        /\ UNCHANGED <<open_fds, notFuse>>

\* how far connect_to_blockv_server gets: the calls before the stage named
\* succeed and, unless it is the read(), the one named fails
ConnectStages == {"socket", "connect", "alloc", "read"}

\* static bool is_target_valid(const char *path) { return true; }
is_target_valid(target) == TRUE

fs_symlink ==
    \E target \in Targets, linkpath \in Paths :
        IF Crashed THEN FALSE
        ELSE IF ~is_target_valid(target)
        THEN /\ fsev' = FsEvent("symlink", linkpath, -ENOENT,
                                [called |-> FALSE], <<>>)
             /\ UNCHANGED <<block_devices, open_fds, notFuse>>
        ELSE IF block_device_exists(linkpath)
        THEN /\ fsev' = FsEvent("symlink", linkpath, -EEXIST,
                                [called |-> FALSE], <<>>)
             /\ UNCHANGED <<block_devices, open_fds, notFuse>>
        ELSE \E stage \in ConnectStages :
             \E greeting \in IF stage = "read" THEN Greetings ELSE {<<>>} :
             \E ret \in IF stage = "read" THEN -1..server_info_serialized_size
                         ELSE {-1} :
                LET socket_ok == stage # "socket"
                    connect_ok == stage \notin {"socket", "connect"}
                    alloc_ok == stage = "read"
                    received == IF ret > 0 THEN SubSeq(greeting, 1, ret) ELSE <<>>
                    c == connect_to_blockv_server(NextFd, socket_ok, connect_ok,
                                                  alloc_ok, ret, received)
                IN /\ block_devices' =
                          IF c.ret = -1 THEN block_devices
                          ELSE add_network_based_block_device(
                                   linkpath, c.server_connection, target)
                   /\ open_fds' = IF c.opened /\ ~c.closed
                                  THEN open_fds \cup {NextFd} ELSE open_fds
                   /\ fsev' = FsEvent("symlink", linkpath,
                                      IF c.ret = -1 THEN -EIO ELSE 0,
                                      [called |-> TRUE, ret |-> c.ret,
                                       opened |-> c.opened],
                                      IF socket_ok /\ connect_ok /\ alloc_ok
                                      THEN received ELSE <<>>)
                   /\ UNCHANGED notFuse

\* ---- the devices' virtual functions

SIZE_MAX == [i \in 1..8 |-> 255]          \* (size_t) -1, and off_t -1

virtual_read_only(d) ==
    IF d.kind = "memory" THEN FALSE ELSE d.server_info.read_only # 0

\* size(): _block_device_size, or the uint32_t device_size of the server info
virtual_size(d) ==
    IF d.kind = "memory" THEN U64(d.size) ELSE Widen(d.server_info.device_size, 8)

set_block_device_content(d, block_device_content, size) ==
    [d EXCEPT !.content = block_device_content, !.size = size,
              !.allocated = TRUE]

\* the range [offset, offset + size) lies inside the device's content
InsideContent(d, size, offset) ==
    /\ NumLe(offset, U64(Len(d.content)))
    /\ NumLe(size, NumSub(U64(Len(d.content)), offset))

\* the result of a device's read or write: the size_t it returns, the bytes a
\* read left in the caller's buffer, the device afterwards, and whether memcpy
\* ran outside the content (undefined behaviour)
OpResult(ret, data, device, overrun) ==
    [ret |-> ret, data |-> data, device |-> device, overrun |-> overrun]

memory_based_block_device_read(d, size, offset) ==
    IF InsideContent(d, size, offset)
    THEN OpResult(size, Pread(d.content, ToNat(size), offset), d, FALSE)
    ELSE OpResult(size, <<>>, d, TRUE)

memory_based_block_device_write(d, buf, size, offset) ==
    IF InsideContent(d, size, offset)
    THEN OpResult(size, <<>>,
                  [d EXCEPT !.content = Pwrite(@, buf, ToNat(size), offset)],
                  FALSE)
    ELSE OpResult(size, <<>>, d, TRUE)

\* a read that reports every byte as read although the exchange failed
network_block_device_read_unchecked(d, size, offset, rpc_ok) ==
    OpResult(Widen(Trunc(size, 4), 8), <<>>, d, FALSE)

\* network_block_device::read as its callers see it: the size asked for (which
\* the request carries as a uint32_t), or 0 when the call failed
network_block_device_read(d, size, offset, rpc_ok) ==
    OpResult(IF rpc_ok THEN Widen(Trunc(size, 4), 8) ELSE U64(0),
             IF rpc_ok /\ IsSmall(size) THEN Zeros(ToNat(size)) ELSE <<>>,
             d, FALSE)

\* network_block_device::write: { return 0; }
network_block_device_write_result(d, buf, size, offset) ==
    OpResult(U64(0), <<>>, d, FALSE)

\* ---- rw(), fs_read, fs_write, fs_truncate
\* int ret = operation(...): the low 32 bits, signed; ret != size compares it
\* as a size_t again
ToInt(x) ==
    IF x[1] < 128 THEN ToNat(x) ELSE 0 - ToNat(NumSub(U32(0), x))

SignExtend(x) == (IF x[1] < 128 THEN Zeros(4) ELSE [i \in 1..4 |-> 255]) \o x

RwResult(ret, invoked, size, r) ==
    [ret |-> ret, invoked |-> invoked, size |-> size, data |-> r.data,
     device |-> r.device, overrun |-> r.overrun]

rw(path, buf, size, offset, read, rpc_ok) ==
    LET d == get_block_device(path)
        len == virtual_size(d)
        clamped == IF NumLt(len, NumAdd(offset, size)) THEN NumSub(len, offset)
                   ELSE size
        r == IF d.kind = "memory"
             THEN IF read THEN memory_based_block_device_read(d, clamped, offset)
                  ELSE memory_based_block_device_write(d, buf, clamped, offset)
             ELSE IF read THEN network_block_device_read(d, clamped, offset, rpc_ok)
                  ELSE network_block_device_write_result(d, buf, clamped, offset)
        ret == Trunc(r.ret, 4)
        none == OpResult(U64(0), <<>>, d, FALSE)
    IN IF ~block_device_exists(path) THEN RwResult(-ENOENT, FALSE, size, none)
       ELSE IF ~read /\ virtual_read_only(d)
       THEN RwResult(-EBADF, FALSE, size, none)
       ELSE IF ~NumLt(offset, len) THEN RwResult(0, FALSE, size, none)
       ELSE IF r.overrun THEN RwResult(ToInt(ret), TRUE, clamped, r)
       ELSE IF SignExtend(ret) # clamped
       THEN RwResult(-EIO, TRUE, clamped, [r EXCEPT !.data = <<>>])
       ELSE RwResult(ToInt(ret), TRUE, clamped, r)

\* the record of a read, write or truncate call
FsCall(op, path, size, offset, r) ==
    [op |-> op, path |-> path, ret |-> r.ret, size |-> size, offset |-> offset,
     invoked |-> r.invoked, passed |-> r.size, data |-> r.data,
     overrun |-> r.overrun, rpc_ok |-> TRUE, before |-> block_devices]

\* the (size, offset) of the read and write calls: inside the device, to be
\* clamped, at and past the end, a negative offset, a sum that wraps
RwCalls ==
    {[size |-> U64(1), offset |-> U64(0)], [size |-> U64(3), offset |-> U64(0)],
     [size |-> U64(1), offset |-> U64(1)], [size |-> U64(3), offset |-> U64(1)],
     [size |-> U64(0), offset |-> U64(1)], [size |-> U64(1), offset |-> U64(2)],
     [size |-> U64(1), offset |-> U64(3)],
     [size |-> U64(1), offset |-> SIZE_MAX], [size |-> SIZE_MAX, offset |-> U64(1)]}

\* the caller's buffer of a write
WriteData(size) == IF size = U64(1) THEN <<7>> ELSE <<7, 8, 9>>

fs_read ==
    \E path \in Paths, c \in RwCalls :
      \E rpc_ok \in IF get_block_device(path).kind = "network" THEN BOOLEAN
                     ELSE {TRUE} :
        LET r == rw(path, <<>>, c.size, c.offset, TRUE, rpc_ok)
        IN /\ ~Crashed
           /\ fsev' = [FsCall("read", path, c.size, c.offset, r)
                         EXCEPT !.rpc_ok = rpc_ok]
           /\ UNCHANGED <<block_devices, open_fds, notFuse>>

fs_write ==
    \E path \in Paths, c \in RwCalls :
        LET r == rw(path, WriteData(c.size), c.size, c.offset, FALSE, FALSE)
        IN /\ ~Crashed
           /\ fsev' = FsCall("write", path, c.size, c.offset, r)
           /\ block_devices' = IF r.invoked
                                THEN [block_devices EXCEPT ![path] = r.device]
                                ELSE block_devices
           /\ UNCHANGED <<open_fds, notFuse>>

\* new char[size] leaves the bytes as they happen to be
TruncateSizes == {0, 2}
Uninitialized(size) == {[i \in 1..size |-> b] : b \in {0, 170}}

fs_truncate ==
    \E path \in Paths, size \in TruncateSizes, alloc_ok \in BOOLEAN :
      \E block_device_content \in Uninitialized(size) :
        LET d == get_block_device(path)
            ret == IF ~block_device_exists(path) THEN -ENOENT
                   ELSE IF d.kind # "memory" THEN -EPERM
                   ELSE IF d.size # 0 THEN -EPERM
                   ELSE IF ~alloc_ok THEN -EIO
                   ELSE 0
        IN /\ ~Crashed
           /\ block_devices' =
                  IF ret = 0
                  THEN [block_devices EXCEPT ![path] =
                           set_block_device_content(d, block_device_content, size)]
                  ELSE block_devices
           /\ fsev' = FsCall("truncate", path, U64(size), U64(0),
                             RwResult(ret, FALSE, U64(size),
                                      OpResult(U64(0), <<>>, d, FALSE)))
           /\ UNCHANGED <<open_fds, notFuse>>

\* ---- fs_getattr, fs_readdir, fs_open, fs_readlink: they change nothing
EACCES == 13

\* the record of a call that only looks at the registry
FsQuery(op, path, ret, result) ==
    [op |-> op, path |-> path, ret |-> ret, result |-> result,
     before |-> block_devices, fds |-> open_fds]

\* st_mode, st_nlink and st_size of the stat buffer, which memset has zeroed
Stat(type, perm, st_nlink, st_size) ==
    [type |-> type, perm |-> perm, st_nlink |-> st_nlink, st_size |-> st_size]

fs_getattr ==
    \E path \in Paths \cup {"/"} :
        LET d == get_block_device(path)
            ret == IF path # "/" /\ ~block_device_exists(path) THEN -ENOENT
                   ELSE 0
            stbuf == IF path = "/" THEN Stat("S_IFDIR", "0755", 2, U64(0))
                     ELSE IF ~block_device_exists(path)
                     THEN Stat("0", "0", 0, U64(0))
                     ELSE Stat("S_IFREG",
                               IF virtual_read_only(d) THEN "0444" ELSE "0644",
                               1, virtual_size(d))
        IN /\ ~Crashed
           /\ fsev' = FsQuery("getattr", path, ret, stbuf)
           /\ UNCHANGED <<block_devices, open_fds, notFuse>>

\* filler() is called for ".", ".." and every key of the registry without its
\* leading '/'
fs_readdir ==
    \E path \in Paths \cup {"/"} :
        /\ ~Crashed
        /\ fsev' = IF path # "/" THEN FsQuery("readdir", path, -ENOENT, {})
                   ELSE FsQuery("readdir", path, 0,
                                {".", ".."} \cup
                                    {p \in Paths : block_device_exists(p)})
        /\ UNCHANGED <<block_devices, open_fds, notFuse>>

\* fi->flags & 3
AccessModes == {"O_RDONLY", "O_WRONLY", "O_RDWR"}

\* an open without the read_only() test
fs_open_unchecked ==
    \E path \in Paths, flags \in AccessModes :
        /\ ~Crashed
        /\ fsev' = FsQuery("open", path,
                           IF ~block_device_exists(path) THEN -ENOENT ELSE 0,
                           flags)
        /\ UNCHANGED <<block_devices, open_fds, notFuse>>

fs_open ==
    \E path \in Paths, flags \in AccessModes :
        LET d == get_block_device(path)
            ret == IF ~block_device_exists(path) THEN -ENOENT
                   ELSE IF virtual_read_only(d) /\ flags # "O_RDONLY"
                   THEN -EACCES
                   ELSE 0
        IN /\ ~Crashed
           /\ fsev' = FsQuery("open", path, ret, flags)
           /\ UNCHANGED <<block_devices, open_fds, notFuse>>

\* target.size()
target_size(target) == IF target = "disk" THEN 4 ELSE 0

\* the size of the caller's buffer
ReadlinkSizes == {3, 8}

\* a readlink without the dynamic_cast test: a memory device reads as an
\* empty link
fs_readlink_any ==
    \E path \in Paths, size \in ReadlinkSizes :
        /\ ~Crashed
        /\ fsev' = FsQuery("readlink", path,
                           IF ~block_device_exists(path) THEN -ENOENT ELSE 0,
                           None)
        /\ UNCHANGED <<block_devices, open_fds, notFuse>>

\* to_write = std::min(target.size(), size - 1) chars of the target are copied
\* and a '\0' is put behind them
fs_readlink ==
    \E path \in Paths, size \in ReadlinkSizes :
        LET d == get_block_device(path)
            ret == IF ~block_device_exists(path) THEN -ENOENT
                   ELSE IF d.kind # "network" THEN -EPERM
                   ELSE 0
        IN /\ ~Crashed
           /\ fsev' = FsQuery("readlink", path, ret,
                              IF ret = 0
                              THEN [target |-> d.target,
                                    to_write |-> Min(target_size(d.target),
                                                     size - 1)]
                              ELSE None)
           /\ UNCHANGED <<block_devices, open_fds, notFuse>>

FuseInit ==
    /\ block_devices = [path \in Paths |-> NoDevice]
    /\ open_fds = {}
    /\ fsev = [op |-> "mount"]
    /\ DeviceIdle
    /\ PureIdle
    /\ ServerIdle
    /\ ClientIdle

FuseNext ==
    \/ fs_getattr \/ fs_readdir \/ fs_open
    \/ fs_create \/ fs_symlink \/ fs_readlink
    \/ fs_truncate \/ fs_read \/ fs_write

SpecFuse == FuseInit /\ [][FuseNext]_vars

(***************************************************************************)
(* struct blockv_fuse on its own: the registry's methods called with any   *)
(* path, whatever the registry holds                                       *)
(***************************************************************************)
\* the connections a caller may hand to add_network_based_block_device
Connections ==
    {[sockfd |-> fd,
      server_info |-> server_info_to_host(server_info_cast(g))] :
        fd \in {FirstFd, FirstFd + 1},
        g \in {server_info_bytes(server_info_to_network(U32(ImageSize), ro)) :
                  ro \in BOOLEAN}}

\* a target named as a path of the mount: a leading '/' and the target
TargetPath(target) == "/" \o target

RegistryCall(op, path, device) ==
    [op |-> op, path |-> path, device |-> device, before |-> block_devices]

registry_add_memory ==
    \E path \in Paths :
        /\ block_devices' = add_memory_based_block_device(path)
        /\ fsev' = RegistryCall("add_memory", path, memory_based_block_device)
        /\ UNCHANGED <<open_fds, notFuse>>

registry_add_network ==
    \E path \in Paths, server_connection \in Connections, target \in Targets :
        /\ block_devices' =
               add_network_based_block_device(path, server_connection, target)
        /\ fsev' = RegistryCall("add_network", path,
                                network_block_device(server_connection, target))
        /\ UNCHANGED <<open_fds, notFuse>>

registry_get ==
    \E path \in Paths \cup {TargetPath(target) : target \in Targets} :
        /\ fsev' = RegistryCall("get", path, get_block_device(path))
        /\ UNCHANGED <<block_devices, open_fds, notFuse>>

RegistryNext == registry_add_memory \/ registry_add_network \/ registry_get

SpecRegistry == FuseInit /\ [][RegistryNext]_vars

(***************************************************************************)
(* blockv_fuse: network_block_device::read called by concurrent threads    *)
(*                                                                         *)
(* FUSE runs the filesystem operations on several threads; they share the  *)
(* device, its socket and its mutex.  A thread's action is the code from   *)
(* one blocking call (the lock, a read() on the socket) to the next.  The  *)
(* server here answers each request it was sent, in order, as              *)
(* handle_client_requests does for a whole READ request; read() on the     *)
(* socket returns any non-empty prefix of what was asked for, and 0 once   *)
(* the server is gone and nothing is left.                                 *)
(***************************************************************************)
NThreads == 2
MaxCalls == 3

Threads == 1..NThreads

RemoteImage == <<0, 0, 0, 1>>

\* the (size, offset) the threads call read() with
ReadCalls ==
    {[size |-> 5, offset |-> 0], [size |-> 1, offset |-> 3],
     [size |-> 2, offset |-> 2]}

NotProduced == [produced |-> FALSE, payload |-> <<>>]

ThreadIdle ==
    [pc |-> "idle", op |-> "none", call |-> 0, size |-> 0, offset |-> 0,
     buf |-> <<>>,
     ret |-> 0, returned |-> FALSE, response_buf |-> <<>>,
     remaining_bytes |-> 0, response_buf_offset |-> 0,
     expected |-> NotProduced]

CallsMade == LET RECURSIVE Sum(_)
                 Sum(n) == IF n = 0 THEN 0 ELSE thr[n].call + Sum(n - 1)
             IN Sum(NThreads)

\* a thread enters read(buf, size, offset) and waits for the lock_guard
read_enter(t) ==
    /\ thr[t].pc = "idle"
    /\ CallsMade < MaxCalls
    /\ \E c \in ReadCalls :
          thr' = [thr EXCEPT ![t] =
                     [ThreadIdle EXCEPT !.pc = "lock", !.op = "read",
                                        !.call = thr[t].call + 1,
                                        !.size = c.size, !.offset = c.offset,
                                        !.buf = [i \in 1..c.size |-> -1]]]
    /\ UNCHANGED <<nbd_mutex, to_server, from_server, remote, notClient>>

\* a return that hands the zeroed response buffer to the caller on failure
ReturnCleared(t, value, buf) ==
    /\ thr' = [thr EXCEPT ![t].pc = "idle", ![t].ret = value,
                          ![t].returned = TRUE,
                          ![t].buf = IF value = 0 THEN Zeros(Len(buf)) ELSE buf]
    /\ nbd_mutex' = 0

\* a return that leaves the mutex with the thread
ReturnHolding(t, value, buf) ==
    /\ thr' = [thr EXCEPT ![t].pc = "idle", ![t].ret = value,
                          ![t].returned = TRUE, ![t].buf = buf]
    /\ UNCHANGED nbd_mutex

\* return value from read(): the lock_guard releases the mutex
Return(t, value, buf) ==
    /\ thr' = [thr EXCEPT ![t].pc = "idle", ![t].ret = value,
                          ![t].returned = TRUE, ![t].buf = buf]
    /\ nbd_mutex' = 0

\* new char[expected_response_size] throws: return 0
read_alloc_failure(t) ==
    /\ thr[t].pc = "lock"
    /\ nbd_mutex = 0
    /\ Return(t, 0, thr[t].buf)
    /\ UNCHANGED <<to_server, from_server, remote, notClient>>

\* ::write of the request fails because the server is gone
read_send_failure(t) ==
    /\ thr[t].pc = "lock"
    /\ nbd_mutex = 0
    /\ remote = "down"
    /\ Return(t, 0, thr[t].buf)
    /\ UNCHANGED <<to_server, from_server, remote, notClient>>

\* the ret of a ::write that sent a part of the request only
ShortWrites == {1, 5}

\* ::write sends the first bytes of the request only: ret != serialized_size(),
\* return 0 with the part sent left on the connection
read_send_short(t) ==
    /\ thr[t].pc = "lock"
    /\ nbd_mutex = 0
    /\ remote = "up"
    /\ \E ret \in ShortWrites :
          to_server' = Append(to_server,
              [thread |-> t, call |-> thr[t].call,
               bytes |-> SubSeq(read_request_bytes(read_request_to_network(
                                    U32(thr[t].size), U32(thr[t].offset))),
                                1, ret)])
    /\ Return(t, 0, thr[t].buf)
    /\ UNCHANGED <<from_server, remote, notClient>>

\* the lock is taken, response_buf allocated and zeroed, the request written
read_send(t) ==
    /\ thr[t].pc = "lock"
    /\ nbd_mutex = 0
    /\ remote = "up"
    /\ nbd_mutex' = t
    /\ to_server' = Append(to_server,
           [thread |-> t, call |-> thr[t].call,
            bytes |-> read_request_bytes(read_request_to_network(
                          U32(thr[t].size), U32(thr[t].offset)))])
    /\ thr' = [thr EXCEPT ![t].pc = "size",
                          ![t].response_buf =
                              Zeros(read_response_metadata_size + thr[t].size)]
    /\ UNCHANGED <<from_server, remote, notClient>>

\* a size check that lets the payload start at the front of response_buf
read_size_checked_from_start(t, k) ==
    LET got == SubSeq(from_server, 1, k)
        read_response == read_response_to_host(
                             [size |-> FromMem(SubSeq(got \o Zeros(4), 1, 4))])
    IN /\ from_server' = SubSeq(from_server, k + 1, Len(from_server))
       /\ IF k # read_response_metadata_size
          THEN Return(t, 0, thr[t].buf)
          ELSE IF read_response.size # U32(thr[t].size)
          THEN Return(t, 0, thr[t].buf)
          ELSE /\ thr' = [thr EXCEPT
                    ![t].pc = "payload",
                    ![t].response_buf = MemcpyAt(@, U32(0), got),
                    ![t].remaining_bytes = ToNat(read_response.size),
                    ![t].response_buf_offset = 0]
               /\ UNCHANGED nbd_mutex

\* read_from_blockv_server(sockfd, response_buf, sizeof(size)) and the checks
read_size_checked(t, k) ==
    LET got == SubSeq(from_server, 1, k)
        read_response == read_response_to_host(
                             [size |-> FromMem(SubSeq(got \o Zeros(4), 1, 4))])
    IN /\ from_server' = SubSeq(from_server, k + 1, Len(from_server))
       /\ IF k # read_response_metadata_size
          THEN Return(t, 0, thr[t].buf)
          ELSE IF read_response.size # U32(thr[t].size)
          THEN Return(t, 0, thr[t].buf)
          ELSE /\ thr' = [thr EXCEPT
                    ![t].pc = "payload",
                    ![t].response_buf = MemcpyAt(@, U32(0), got),
                    ![t].remaining_bytes = ToNat(read_response.size),
                    ![t].response_buf_offset = read_response_metadata_size]
               /\ UNCHANGED nbd_mutex

read_size(t) ==
    /\ thr[t].pc = "size"
    /\ \E k \in 1..Min(read_response_metadata_size, Len(from_server)) :
          read_size_checked(t, k)
    /\ UNCHANGED <<to_server, remote, notClient>>

\* one read_from_blockv_server() in the payload loop; after the last one
\* memcpy(buf, read_response->buf, read_response->size) and return the size
read_payload(t) ==
    /\ thr[t].pc = "payload"
    /\ \E k \in 1..Min(thr[t].remaining_bytes, Len(from_server)) :
          LET response_buf == MemcpyAt(thr[t].response_buf,
                                       U32(thr[t].response_buf_offset),
                                       SubSeq(from_server, 1, k))
          IN /\ from_server' = SubSeq(from_server, k + 1, Len(from_server))
             /\ IF thr[t].remaining_bytes - k > 0
                THEN /\ thr' = [thr EXCEPT
                          ![t].response_buf = response_buf,
                          ![t].remaining_bytes = @ - k,
                          ![t].response_buf_offset = @ + k]
                     /\ UNCHANGED nbd_mutex
                ELSE Return(t, thr[t].size,
                            SubSeq(response_buf, read_response_metadata_size + 1,
                                   read_response_metadata_size + thr[t].size))
    /\ UNCHANGED <<to_server, remote, notClient>>

\* read() on the socket returns 0: the server is gone and nothing is left
read_eof(t) ==
    /\ thr[t].pc \in {"size", "payload"}
    /\ from_server = <<>>
    /\ remote = "down"
    /\ Return(t, 0, thr[t].buf)
    /\ UNCHANGED <<to_server, from_server, remote, notClient>>

\* the (buf, size, offset) the threads call write() with
WriteCalls == {[buf |-> <<7, 8>>, size |-> 2, offset |-> 1]}

\* virtual size_t write(const char *buf, size_t size, off_t offset) { return 0; }
network_block_device_write(t) ==
    /\ thr[t].pc = "idle"
    /\ CallsMade < MaxCalls
    /\ \E c \in WriteCalls :
          thr' = [thr EXCEPT ![t] =
                     [ThreadIdle EXCEPT !.op = "write",
                                        !.call = thr[t].call + 1,
                                        !.size = c.size, !.offset = c.offset,
                                        !.buf = c.buf, !.ret = 0,
                                        !.returned = TRUE]]
    /\ UNCHANGED <<nbd_mutex, to_server, from_server, remote, notClient>>

\* the server reads the next request and writes its response
RemoteRespond ==
    /\ remote = "up"
    /\ to_server # <<>>
    /\ LET m == Head(to_server)
           rq == read_request_to_host(read_request_cast(
                     m.bytes \o Zeros(read_request_serialized_size - Len(m.bytes))))
           n == ToNat(get_actual_size(rq.size, Widen(rq.offset, 8),
                                      U64(Len(RemoteImage))))
           payload == Pread(RemoteImage, n, Widen(rq.offset, 8))
           response == read_response_set_size_to_network(
                           read_response_to_network(rq.size), U32(n))
       IN /\ from_server' = from_server \o MemBytes(response.size) \o payload
          /\ thr' = IF /\ thr[m.thread].call = m.call
                       /\ Len(m.bytes) = read_request_serialized_size
                    THEN [thr EXCEPT ![m.thread].expected =
                              [produced |-> TRUE, payload |-> payload]]
                    ELSE thr
    /\ to_server' = Tail(to_server)
    /\ UNCHANGED <<nbd_mutex, remote, notClient>>

\* the server is killed
RemoteDies ==
    /\ remote = "up"
    /\ remote' = "down"
    /\ to_server' = <<>>
    /\ UNCHANGED <<nbd_mutex, thr, from_server, notClient>>

ClientInit ==
    /\ nbd_mutex = 0
    /\ thr = [t \in Threads |-> ThreadIdle]
    /\ to_server = <<>>
    /\ from_server = <<>>
    /\ remote = "up"
    /\ DeviceIdle
    /\ PureIdle
    /\ ServerIdle
    /\ FuseIdle

ClientNext ==
    \/ \E t \in Threads : read_enter(t)
    \/ \E t \in Threads : read_alloc_failure(t)
    \/ \E t \in Threads : read_send_failure(t)
    \/ \E t \in Threads : read_send_short(t)
    \/ \E t \in Threads : read_send(t)
    \/ \E t \in Threads : read_size(t)
    \/ \E t \in Threads : read_payload(t)
    \/ \E t \in Threads : read_eof(t)
    \/ \E t \in Threads : network_block_device_write(t)
    \/ RemoteRespond
    \/ RemoteDies

SpecClient == ClientInit /\ [][ClientNext]_vars

\* std::lock_guard's constructor returns once the mutex is free: the request
\* is sent, or read() returns before it is
Acquire(t) ==
    \/ read_alloc_failure(t)
    \/ read_send_failure(t)
    \/ read_send_short(t)
    \/ read_send(t)

\* a ::read on the socket returns
SocketReturns(t) == read_size(t) \/ read_payload(t) \/ read_eof(t)

\* a thread that can go on inside read() does
Progress == \E t \in Threads : Acquire(t) \/ SocketReturns(t)

\* the running RPC's socket calls return: a server that is up answers the
\* requests it has. This is WF_vars(RemoteRespond) with ENABLED written out
\* as RemoteRespond's own guard (its two first conjuncts)
Answered ==
    \/ []<>(~(remote = "up" /\ to_server # <<>>))
    \/ []<><<RemoteRespond>>_vars

SpecClientLive == ClientInit /\ [][ClientNext]_vars /\ WF_vars(Progress) /\ Answered

(***************************************************************************)
(* block_device::read and block_device::write called by several threads:   *)
(* _mutex is a std::shared_timed_mutex, taken shared around pread and       *)
(* exclusive around pwrite                                                 *)
(***************************************************************************)
\* the (size, offset) of the calls: inside the image, and to be clamped
DeviceCalls ==
    {[size |-> U32(1), offset |-> U64(0)], [size |-> U32(2), offset |-> U64(1)]}

\* failed: the thread's last pread or pwrite returned -1
CallerIdle ==
    [pc |-> "idle", op |-> "none", size |-> 0, offset |-> U64(0), ret |-> 0,
     failed |-> FALSE]

\* read(buf, size, offset) up to _mutex.lock_shared()
device_read(t) ==
    /\ caller[t].pc = "idle"
    /\ \E c \in DeviceCalls :
          caller' = [caller EXCEPT ![t] =
              [CallerIdle EXCEPT
                  !.pc = "lock_shared", !.op = "read", !.offset = c.offset,
                  !.failed = caller[t].failed,
                  !.size = ToNat(get_actual_size(c.size, c.offset,
                                                 U64(Len(disk))))]]
    /\ UNCHANGED <<_mutex, disk, notDevice>>

\* a lock_shared that does not wait for the exclusive owner
lock_shared_unguarded(t) ==
    /\ caller[t].pc = "lock_shared"
    /\ _mutex' = [_mutex EXCEPT !.shared = @ \cup {t}]
    /\ caller' = [caller EXCEPT ![t].pc = "pread"]
    /\ UNCHANGED <<disk, notDevice>>

\* _mutex.lock_shared() returns: no thread owns the mutex exclusively
lock_shared(t) ==
    /\ caller[t].pc = "lock_shared"
    /\ _mutex.exclusive = 0
    /\ _mutex' = [_mutex EXCEPT !.shared = @ \cup {t}]
    /\ caller' = [caller EXCEPT ![t].pc = "pread"]
    /\ UNCHANGED <<disk, notDevice>>

\* ret = pread(_fd, buf, size, offset) returns, -1 when it fails
pread(t) ==
    /\ caller[t].pc = "pread"
    /\ \E ok \in BOOLEAN :
          caller' = [caller EXCEPT
              ![t].pc = "unlock_shared",
              ![t].ret = IF ok THEN caller[t].size ELSE -1]
    /\ UNCHANGED <<_mutex, disk, notDevice>>

\* _mutex.unlock_shared(); if (ret == -1) ret = 0; return ret
unlock_shared(t) ==
    /\ caller[t].pc = "unlock_shared"
    /\ _mutex' = [_mutex EXCEPT !.shared = @ \ {t}]
    /\ caller' = [caller EXCEPT
           ![t].pc = "idle",
           ![t].failed = caller[t].ret = -1,
           ![t].ret = IF caller[t].ret = -1 THEN 0 ELSE caller[t].ret]
    /\ UNCHANGED <<disk, notDevice>>

\* write(buf, size, offset) up to _mutex.lock()
device_write(t) ==
    /\ caller[t].pc = "idle"
    /\ \E c \in DeviceCalls :
          caller' = [caller EXCEPT ![t] =
              [CallerIdle EXCEPT
                  !.pc = "lock", !.op = "write", !.offset = c.offset,
                  !.failed = caller[t].failed,
                  !.size = ToNat(get_actual_size(c.size, c.offset,
                                                 U64(Len(disk))))]]
    /\ UNCHANGED <<_mutex, disk, notDevice>>

\* _mutex.lock() returns: no thread owns the mutex, shared or exclusively
lock(t) ==
    /\ caller[t].pc = "lock"
    /\ _mutex.exclusive = 0
    /\ _mutex.shared = {}
    /\ _mutex' = [_mutex EXCEPT !.exclusive = t]
    /\ caller' = [caller EXCEPT ![t].pc = "pwrite"]
    /\ UNCHANGED <<disk, notDevice>>

\* ret = pwrite(_fd, buf, size, offset) returns, -1 when it fails; thread t
\* writes bytes of value t
pwrite(t) ==
    /\ caller[t].pc = "pwrite"
    /\ \E ok \in BOOLEAN :
          /\ caller' = [caller EXCEPT
                 ![t].pc = "unlock",
                 ![t].ret = IF ok THEN caller[t].size ELSE -1]
          /\ disk' = IF ok
                     THEN Pwrite(disk, [i \in 1..caller[t].size |-> t],
                                 caller[t].size, caller[t].offset)
                     ELSE disk
    /\ UNCHANGED <<_mutex, notDevice>>

\* _mutex.unlock(); if (ret == -1) ret = 0; return ret
unlock(t) ==
    /\ caller[t].pc = "unlock"
    /\ _mutex' = [_mutex EXCEPT !.exclusive = 0]
    /\ caller' = [caller EXCEPT
           ![t].pc = "idle",
           ![t].failed = caller[t].ret = -1,
           ![t].ret = IF caller[t].ret = -1 THEN 0 ELSE caller[t].ret]
    /\ UNCHANGED <<disk, notDevice>>

DeviceInit ==
    /\ _mutex = [exclusive |-> 0, shared |-> {}]
    /\ caller = [t \in Threads |-> CallerIdle]
    /\ disk = Zeros(ImageSize)
    /\ PureIdle
    /\ ServerIdle
    /\ FuseIdle
    /\ ClientIdle

DeviceNext ==
    \/ \E t \in Threads : device_read(t)
    \/ \E t \in Threads : lock_shared(t)
    \/ \E t \in Threads : pread(t)
    \/ \E t \in Threads : unlock_shared(t)
    \/ \E t \in Threads : device_write(t)
    \/ \E t \in Threads : lock(t)
    \/ \E t \in Threads : pwrite(t)
    \/ \E t \in Threads : unlock(t)

SpecDevice == DeviceInit /\ [][DeviceNext]_vars

(***************************************************************************)
(* Pure functions under test: the inputs are drawn in the initial state,   *)
(* one action applies the function.                                        *)
(***************************************************************************)
SampleU32 ==
    {U32(0), U32(1), U32(2), U32(256), <<1, 2, 3, 4>>, <<176, 176, 176, 176>>,
     <<255, 255, 255, 254>>, <<255, 255, 255, 255>>}

SampleU64 ==
    {U64(0), U64(1), U64(8), U64(10), Widen(<<255, 255, 255, 255>>, 8),
     <<0, 0, 0, 1, 0, 0, 0, 0>>, <<0, 0, 0, 2, 0, 0, 0, 0>>,
     <<255, 255, 255, 255, 255, 255, 255, 254>>,
     <<255, 255, 255, 255, 255, 255, 255, 255>>}

SamplePayload == {<<>>, <<7>>, <<1, 2>>, <<255, 0, 177>>}

SizeInputs ==
    [fn : {"get_actual_size"}, size : SampleU32, offset : SampleU64,
     block_device_size : SampleU64]

CodecInputs ==
    [fn : {"server_info"}, device_size : SampleU32, read_only : BOOLEAN]
    \cup [fn : {"read_request"}, size : SampleU32, offset : SampleU32]
    \cup [fn : {"read_response"}, size : SampleU32]
    \cup [fn : {"write_request"}, buf : SamplePayload, offset : SampleU32]
    \cup [fn : {"write_response"}, size : SampleU32]

ApplyGetActualSize ==
    /\ pstage = "input"
    /\ pin.fn = "get_actual_size"
    /\ pout' = get_actual_size(pin.size, pin.offset, pin.block_device_size)
    /\ pstage' = "done"
    /\ UNCHANGED <<pin, notPure>>

\* to_network, then the struct as the bytes a socket write() sends
ServerInfoToNetwork ==
    /\ pstage = "input" /\ pin.fn = "server_info"
    /\ pout' = server_info_bytes(
                   server_info_to_network(pin.device_size, pin.read_only))
    /\ pstage' = "network"
    /\ UNCHANGED <<pin, notPure>>

ReadRequestToNetwork ==
    /\ pstage = "input" /\ pin.fn = "read_request"
    /\ pout' = read_request_bytes(read_request_to_network(pin.size, pin.offset))
    /\ pstage' = "network"
    /\ UNCHANGED <<pin, notPure>>

ReadResponseToNetwork ==
    /\ pstage = "input" /\ pin.fn = "read_response"
    /\ pout' = MemBytes(read_response_to_network(pin.size).size)
    /\ pstage' = "network"
    /\ UNCHANGED <<pin, notPure>>

WriteRequestToNetwork ==
    /\ pstage = "input" /\ pin.fn = "write_request"
    /\ pout' = write_request_bytes(
                   write_request_to_network(pin.buf, U32(Len(pin.buf)), pin.offset))
    /\ pstage' = "network"
    /\ UNCHANGED <<pin, notPure>>

WriteResponseToNetwork ==
    /\ pstage = "input" /\ pin.fn = "write_response"
    /\ pout' = MemBytes(write_response_to_network(pin.size).size)
    /\ pstage' = "network"
    /\ UNCHANGED <<pin, notPure>>

\* the received bytes cast to the struct, then to_host
ServerInfoToHost ==
    /\ pstage = "network" /\ pin.fn = "server_info"
    /\ pout' = server_info_to_host(server_info_cast(pout))
    /\ pstage' = "host"
    /\ UNCHANGED <<pin, notPure>>

ReadRequestToHost ==
    /\ pstage = "network" /\ pin.fn = "read_request"
    /\ pout' = read_request_to_host(read_request_cast(pout))
    /\ pstage' = "host"
    /\ UNCHANGED <<pin, notPure>>

ReadResponseToHost ==
    /\ pstage = "network" /\ pin.fn = "read_response"
    /\ pout' = read_response_to_host([size |-> FromMem(pout)])
    /\ pstage' = "host"
    /\ UNCHANGED <<pin, notPure>>

WriteRequestToHost ==
    /\ pstage = "network" /\ pin.fn = "write_request"
    /\ pout' = write_request_to_host(
                   [request |-> pout[1],
                    size    |-> FromMem(SubSeq(pout, 2, 5)),
                    offset  |-> FromMem(SubSeq(pout, 6, 9)),
                    buf     |-> SubSeq(pout, 10, Len(pout))])
    /\ pstage' = "host"
    /\ UNCHANGED <<pin, notPure>>

WriteResponseToHost ==
    /\ pstage = "network" /\ pin.fn = "write_response"
    /\ pout' = write_response_to_host([size |-> FromMem(pout)])
    /\ pstage' = "host"
    /\ UNCHANGED <<pin, notPure>>

SizeInit ==
    /\ pstage = "input"
    /\ pin \in SizeInputs
    /\ pout = None
    /\ DeviceIdle
    /\ ServerIdle
    /\ FuseIdle
    /\ ClientIdle
SizeNext == ApplyGetActualSize

CodecInit ==
    /\ pstage = "input"
    /\ pin \in CodecInputs
    /\ pout = None
    /\ DeviceIdle
    /\ ServerIdle
    /\ FuseIdle
    /\ ClientIdle
CodecNext ==
    \/ ServerInfoToNetwork \/ ServerInfoToHost
    \/ ReadRequestToNetwork \/ ReadRequestToHost
    \/ ReadResponseToNetwork \/ ReadResponseToHost
    \/ WriteRequestToNetwork \/ WriteRequestToHost
    \/ WriteResponseToNetwork \/ WriteResponseToHost

\* ---- the greeting, from the backing store to the Remote device
\* sizes of the backing store: below, at and above 2^32
BackingSizes ==
    {U64(0), U64(1), U64(2), U64(256), U64(4096),
     <<0, 0, 0, 0, 1, 2, 3, 4>>,
     <<0, 0, 0, 0, 128, 0, 0, 0>>,
     <<0, 0, 0, 0, 255, 255, 255, 255>>,
     <<0, 0, 0, 1, 0, 0, 0, 0>>,
     <<0, 0, 0, 1, 0, 0, 0, 2>>,
     <<0, 0, 0, 2, 0, 0, 16, 0>>,
     <<0, 0, 1, 0, 0, 0, 0, 0>>,
     <<1, 2, 3, 4, 5, 6, 7, 8>>,
     <<255, 255, 255, 255, 255, 255, 255, 254>>,
     <<255, 255, 255, 255, 255, 255, 255, 255>>}

GreetingInputs ==
    [fn : {"greeting"}, block_device_size : BackingSizes, read_only : BOOLEAN]

\* handle_client_requests sends the server info to the new client
SendServerInfo ==
    /\ pstage = "input"
    /\ pin.fn = "greeting"
    /\ pout' = [sent |-> server_info_sent(pin.block_device_size, pin.read_only)]
    /\ pstage' = "greeted"
    /\ UNCHANGED <<pin, notPure>>

\* the client's connect_to_blockv_server reads the greeting, whole or short,
\* and on success the Remote device is built from the connection
ConnectToServer ==
    /\ pstage = "greeted"
    /\ \E ret \in {5, server_info_serialized_size} :
          LET c == connect_to_blockv_server(FirstFd, TRUE, TRUE, TRUE, ret,
                                            SubSeq(pout.sent, 1, ret))
          IN pout' = [sent |-> pout.sent, ret |-> c.ret,
                      device |-> IF c.ret = 0
                                 THEN network_block_device(c.server_connection,
                                                           "disk")
                                 ELSE NoDevice]
    /\ pstage' = "connected"
    /\ UNCHANGED <<pin, notPure>>

GreetingInit ==
    /\ pstage = "input"
    /\ pin \in GreetingInputs
    /\ pout = None
    /\ DeviceIdle
    /\ ServerIdle
    /\ FuseIdle
    /\ ClientIdle
GreetingNext == SendServerInfo \/ ConnectToServer

SpecGreeting == GreetingInit /\ [][GreetingNext]_vars
SpecSize == SizeInit /\ [][SizeNext]_vars
SpecCodec == CodecInit /\ [][CodecNext]_vars
SpecServer == ServerInit /\ [][ServerNext]_vars

\* accept() returns once a client connects: clients keep coming
SpecServerLive == ServerInit /\ [][ServerNext]_vars /\ WF_vars(Accept)

(***************************************************************************)
(* Claims about the pure functions                                         *)
(***************************************************************************)
\* exact (unwrapped) offset + size, one digit wider than uint64_t
TrueEnd(in) == NumAdd(Widen(in.offset, 9), Widen(in.size, 9))

\* offset is a wire offset (fits 32 bits) and offset + size does not
Overflows32(in) ==
    /\ \A i \in 1..4 : in.offset[i] = 0
    /\ \E i \in 1..5 : TrueEnd(in)[i] # 0

Overflows64(in) == TrueEnd(in)[1] # 0

WithinRequest(in, out) == NumLe(out, in.size)

WithinDevice(in, out) ==
    IF NumLe(in.block_device_size, in.offset)
    THEN out = U32(0)
    ELSE NumLe(Widen(out, 8), NumSub(in.block_device_size, in.offset))

\* C4 as claimed: the effective size is at most the requested size, at most
\* max(0, device_size - offset), and 0 whenever offset + size overflows 32 bits.
C4_AsClaimed ==
    pstage = "done" =>
        /\ WithinRequest(pin, pout)
        /\ WithinDevice(pin, pout)
        /\ Overflows32(pin) => pout = U32(0)

\* C4 amended: the effective size is at most the requested size and at most
\* max(0, device_size - offset); it is 0 when offset + size overflows the 64 bits
\* block_device adds them in; otherwise, for offset < device_size, it is
\* min(size, device_size - offset), also when offset + size exceeds 32 bits.
C4_ActualSize ==
    pstage = "done" =>
        /\ WithinRequest(pin, pout)
        /\ WithinDevice(pin, pout)
        /\ Overflows64(pin) => pout = U32(0)
        /\ (~Overflows64(pin) /\ NumLt(pin.offset, pin.block_device_size)) =>
               LET room == NumSub(pin.block_device_size, pin.offset) IN
               pout = IF NumLt(room, Widen(pin.size, 8)) THEN Trunc(room, 4)
                      ELSE pin.size

C4_Witness ==
    /\ pstage = "done"
    /\ Overflows32(pin)
    /\ NumLt(pin.offset, pin.block_device_size)
    /\ pout = U32(2)

\* C6: for every message type, to_host of the bytes to_network produced gives
\* back the original field values (and the payload bytes unchanged).
C6_RoundTrip ==
    pstage = "host" =>
        CASE pin.fn = "server_info" ->
                 /\ pout.magic_value = BLOCKV_MAGIC_VALUE
                 /\ pout.device_size = pin.device_size
                 /\ pout.read_only = (IF pin.read_only THEN 1 ELSE 0)
          [] pin.fn = "read_request" ->
                 /\ pout.request = READ
                 /\ pout.size = pin.size
                 /\ pout.offset = pin.offset
          [] pin.fn = "read_response" -> pout.size = pin.size
          [] pin.fn = "write_request" ->
                 /\ pout.request = WRITE
                 /\ pout.size = U32(Len(pin.buf))
                 /\ pout.offset = pin.offset
                 /\ pout.buf = pin.buf
          [] pin.fn = "write_response" -> pout.size = pin.size

C6_Witness ==
    /\ pstage = "host"
    /\ pin.fn = "read_request"
    /\ pin.size = <<1, 2, 3, 4>>
    /\ pin.offset = <<255, 255, 255, 254>>
    /\ pout.offset = <<255, 255, 255, 254>>


(***************************************************************************)
(* Claims about blockv_server, checked under SpecServer                    *)
(***************************************************************************)
RECURSIVE Flatten(_)
Flatten(chunks) ==
    IF chunks = <<>> THEN <<>> ELSE Head(chunks) \o Flatten(Tail(chunks))

\* C2: the buffer the server passes to dev.write for a WRITE whose payload came
\* split over the first read and follow-up reads is the concatenation of the
\* chunks in arrival order, is exactly size bytes long, and remaining_bytes is
\* 0 when the collection loop is left.
C2_Reassembly ==
    lw.called =>
        /\ lw.buf = Flatten(lw.arrived)
        /\ IsSmall(lw.size) /\ Len(lw.buf) = ToNat(lw.size)
        /\ lw.remaining_bytes = U64(0)

C2_Witness ==
    /\ lw.called
    /\ lw.first_ret = write_request_header_size
    /\ Len(lw.arrived) = 3
    /\ lw.buf = WriteAll.buf

\* C3 as claimed: on a read-only device, after the server has dropped a WRITE
\* whose 9-byte header arrived whole, whatever the segmentation of the payload,
\* and while the client sends nothing but WRITEs and keeps the connection
\* open and no allocation fails, the next step leaves the image unchanged and the server in the
\* dispatch loop of the same connection.
C3_AsClaimed ==
    [][(/\ read_only
        /\ ev.op = "drop"
        /\ ev.ret >= write_request_header_size
        /\ \A i \in 1..Len(sent') : sent'[i].kind = WRITE
        /\ peer' = "open"
        /\ ev'.op # "alloc_fail")
       => (spc' = "dispatch" /\ dev' = dev)]_vars

\* C5: the response to a READ whose pread does not fail carries size 0 if
\* offset >= device_size and min(size, device_size - offset) otherwise, followed
\* by exactly that many bytes, the image's bytes from offset on; the size never
\* exceeds the requested one.
C5_ReadResponse ==
    (ev.op = "read" /\ ~ev.failed) =>
        LET device_size == U64(Len(dev))
            offset == Widen(ev.offset, 8)
            room == NumSub(device_size, offset)
            effective == IF NumLe(device_size, offset) THEN U32(0)
                         ELSE IF NumLe(Widen(ev.size, 8), room) THEN ev.size
                         ELSE Trunc(room, 4)
            n == ToNat(effective)
        IN /\ Len(s2c) = read_response_metadata_size + n
           /\ SubSeq(s2c, 1, read_response_metadata_size) = effective
           /\ \A i \in 1..n :
                 s2c[read_response_metadata_size + i] = dev[ToNat(offset) + i]
           /\ NumLe(effective, ev.size)

C5_Witness ==
    /\ ev.op = "read"
    /\ ~ev.failed
    /\ ev.size = U32(ImageSize + 1)
    /\ ev.offset = U32(1)
    /\ Len(s2c) = read_response_metadata_size + ImageSize - 1

\* C9: a kind byte is valid iff it is 0xB1, 0xB2 or 0xB3; when a read at the top
\* of the request loop returns bytes whose first one is anything else, the
\* server writes nothing, ends the session, and is back in accept() with the
\* process alive, where the next connection is accepted.
C9_InvalidKind ==
    /\ \A b \in Byte : request_is_valid(b) <=> b \in {177, 178, 179}
    /\ (ev.op \notin {"none", "greet"} /\ ev.ret >= 1
            /\ ev.kind \notin {177, 178, 179})
       => (spc = "accept" /\ s2c = <<>> /\ ENABLED Accept)

C9_Witness ==
    /\ ev.op = "invalid"
    /\ ev.kind = GARBAGE
    /\ spc = "accept"
    /\ s2c = <<>>

\* C10 as claimed: on a writable device, once the client has sent a WRITE of the
\* whole image and then a READ of the whole image, and the server has consumed
\* all of it with no allocation, pread or pwrite failure, its last step answered
\* the READ with the written bytes (and the bytes outside them as before).
C10_AsClaimed ==
    (/\ ~read_only
     /\ peer = "open"
     /\ sent = <<WriteAll, ReadAll>>
     /\ c2s = <<>>
     /\ ~lw.failed
     /\ ~ev.failed
     /\ ev.op # "alloc_fail")
    => /\ ev.op = "read"
       /\ lw.called
       /\ Len(s2c) = read_response_metadata_size + ImageSize
       /\ SubSeq(s2c, 1, read_response_metadata_size) = U32(ImageSize)
       /\ \A i \in 1..ImageSize :
             s2c[read_response_metadata_size + i] =
                 IF i <= Len(WriteAll.buf) THEN WriteAll.buf[i]
                 ELSE lw.before[i]

(***************************************************************************)
(* Claims about blockv_fuse, checked under SpecFuse                        *)
(***************************************************************************)
SymlinkConnected ==
    fsev.op = "symlink" /\ fsev.connect.called /\ fsev.connect.ret = 0

SymlinkConnectFailed ==
    fsev.op = "symlink" /\ fsev.connect.called /\ fsev.connect.ret = -1

\* C7: connect_to_blockv_server succeeds only if read() delivered exactly the
\* 9 bytes of the server info and its first four bytes are B0 B0 B0 B0; with
\* any other magic value, or fewer bytes, it fails.
C7_Greeting ==
    SymlinkConnected =>
        /\ Len(fsev.received) = 9
        /\ SubSeq(fsev.received, 1, 4) = <<176, 176, 176, 176>>

C7_Witness ==
    /\ SymlinkConnected
    /\ fsev.received[9] = 1
    /\ block_devices[fsev.path].kind = "network"
    /\ block_devices[fsev.path].server_info.read_only = 1

\* C8: when connecting or the greeting fails during fs_symlink (connect error,
\* short server info, wrong magic), fs_symlink returns -EIO, the registry is as
\* before with no entry for the link path, and the socket opened for the
\* attempt is closed.
C8_SymlinkFailure ==
    SymlinkConnectFailed =>
        /\ fsev.ret = -5
        /\ block_devices = fsev.before
        /\ block_devices[fsev.path] = NoDevice
        /\ open_fds = fsev.fds
        /\ fsev.sockfd \notin open_fds

C8_Witness ==
    /\ SymlinkConnectFailed
    /\ fsev.connect.opened
    /\ Len(fsev.received) = 9
    /\ SubSeq(fsev.received, 1, 4) = <<222, 173, 190, 239>>
    /\ open_fds # {}

(***************************************************************************)
(* Claims about network_block_device, checked under SpecClient             *)
(***************************************************************************)
\* C1 as claimed: every read() call on the shared remote device that has
\* returned a non-zero count left in its caller's buffer exactly the payload
\* the server produced for that call's own request.
C1_AsClaimed ==
    \A t \in Threads :
        (thr[t].pc = "idle" /\ thr[t].returned /\ thr[t].ret # 0) =>
            /\ thr[t].expected.produced
            /\ thr[t].buf = thr[t].expected.payload

(***************************************************************************)
(* More claims about blockv_server, checked under SpecServer               *)
(***************************************************************************)
\* a step of the server that consumed bytes of the connection
ServerConsumed == Len(c2s') < Len(c2s) /\ peer' = peer

\* C11: for a WRITE on a writable device dev.write is called once, in the step
\* that leaves the collection loop, when all size payload bytes have arrived
\* and with all of them; while follow-up reads are pending neither dev.write
\* is called nor the image changed, and the image changes in no other way.
C11_WriteOnce ==
    [][/\ spc' = "collect" => (dev' = dev /\ lw' = lw)
       /\ dev' # dev => (lw'.called /\ lw'.before = dev /\ ev'.op = "write")
       /\ (ServerConsumed /\ ev'.op = "write") =>
              /\ ~read_only
              /\ lw'.called
              /\ lw'.before = dev
              /\ lw'.remaining_bytes = U64(0)
              /\ Len(Flatten(lw'.arrived)) = ToNat(lw'.size)
              /\ lw'.buf = Flatten(lw'.arrived)
              /\ dev' = (IF lw'.failed THEN dev
                         ELSE Pwrite(dev, lw'.buf, lw'.ret, Widen(lw'.offset, 8)))
              /\ spc' = "dispatch"
              /\ wr' = NoWriteRequest]_vars

C11_Witness ==
    /\ ev.op = "write"
    /\ lw.called
    /\ ~lw.failed
    /\ lw.first_ret = write_request_header_size + 1
    /\ Len(lw.arrived) = 2
    /\ SubSeq(dev, 1, 2) = WriteAll.buf


C13_Finish ==
    [][(spc = "dispatch" /\ ServerConsumed /\ c2s[1] = FINISH) =>
           /\ ev'.op = "finish"
           /\ s2c' = <<>>
           /\ dev' = dev
           /\ lw' = lw
           /\ spc' = "accept"]_vars

C13_Witness ==
    /\ ev.op = "finish"
    /\ sent = <<WritePastEnd, Finish>>
    /\ lw.called
    /\ dev = Pwrite(lw.before, lw.buf, lw.ret, Widen(lw.offset, 8))
    /\ dev # lw.before
    /\ s2c = <<>>
    /\ spc = "accept"


\* the ways handle_client_requests returns
SessionEnds == {"finish", "eof", "invalid", "alloc_fail"}

\* C14: when the request loop is left (FINISH, read() returning 0 at the top of
\* the loop, an invalid kind, a failed allocation) the server is back in
\* accept() with the connection gone, and the next client is greeted; neither
\* the end of a session nor the start of the next changes the image.
C14_NextSession ==
    /\ [](ev.op \in SessionEnds => (spc = "accept" /\ c2s = <<>>))
    /\ [][(spc = "accept" \/ spc' = "accept") => dev' = dev]_vars
    /\ (ev.op \in SessionEnds) ~> (ev.op = "greet" /\ spc = "dispatch")

\* a READ in a session that wrote nothing returns what an earlier session wrote
C14_Witness ==
    /\ ev.op = "read"
    /\ ~lw.called
    /\ sent[1] = ReadAll
    /\ ev.data = WriteAll.buf
    /\ dev \notin InitialImages


(***************************************************************************)
(* More claims about network_block_device, checked under SpecClient        *)
(***************************************************************************)
\* thread t returns from read() in this step
Returns(t) == thr[t].pc # "idle" /\ thr'[t].pc = "idle"

\* the bytes the step took from the socket
Taken == SubSeq(from_server, 1, Len(from_server) - Len(from_server'))

\* the size field at the head of the stream is whole and is the requested size
SizeMatches(t) ==
    /\ Len(from_server) >= read_response_metadata_size
    /\ ntohl(FromMem(SubSeq(from_server, 1, 4))) = U32(thr[t].size)

\* the payload bytes read() has received once this step is done
PayloadRead(t) ==
    SubSeq(thr[t].response_buf, read_response_metadata_size + 1,
           thr[t].response_buf_offset) \o Taken

\* C15 as claimed: read() returns 0, the caller's buffer untouched, when the
\* request was not sent, when a read() on the socket returned 0 or when the
\* size field of the response is cut off or is not the requested size; in
\* every other case it returns the requested size with the payload in the
\* caller's buffer.
C15_AsClaimed ==
    [][\A t \in Threads : Returns(t) =>
          IF \/ thr[t].pc = "lock"
             \/ from_server = <<>>
             \/ (thr[t].pc = "size" /\ ~SizeMatches(t))
          THEN thr'[t].ret = 0 /\ thr'[t].buf = thr[t].buf
          ELSE /\ thr'[t].ret = thr[t].size
               /\ thr'[t].buf = PayloadRead(t)]_vars

\* C15: read() returns 0 or the requested size.  It returns 0, the caller's
\* buffer untouched, exactly when the request was not sent (allocation failed,
\* short send), when a read() on the socket returned 0, when the read() of the
\* size field returned fewer than its 4 bytes, or when the size received is not
\* the requested size; otherwise it returns the requested size and the caller's
\* buffer holds the payload bytes received after the size field.
C15_ReadResult ==
    [][\A t \in Threads : Returns(t) =>
          IF \/ thr[t].pc = "lock"
             \/ from_server = <<>>
             \/ (thr[t].pc = "size" /\ ~SizeMatches(t))
             \/ (thr[t].pc = "size" /\ Len(Taken) # read_response_metadata_size)
          THEN /\ thr'[t].ret = 0
               /\ thr'[t].buf = thr[t].buf
               /\ \A i \in 1..thr[t].size : thr[t].buf[i] = -1
          ELSE /\ thr[t].pc = "payload"
               /\ thr'[t].ret = thr[t].size
               /\ Len(PayloadRead(t)) = thr[t].size
               /\ thr'[t].buf = PayloadRead(t)]_vars

\* a call that got its 2-byte payload in two reads, and one that failed
C15_Witness ==
    \E t \in Threads, u \in Threads :
        /\ thr[t].pc = "idle" /\ thr[t].returned
        /\ thr[t].size = 2 /\ thr[t].ret = 2
        /\ thr[t].buf = SubSeq(RemoteImage, 3, 4)
        /\ thr[u].pc = "idle" /\ thr[u].returned
        /\ thr[u].size = 5 /\ thr[u].ret = 0
        /\ thr[u].buf = [i \in 1..5 |-> -1]


\* thread t writes its request to the socket in this step
Sends(t) == thr[t].pc = "lock" /\ thr'[t].pc = "size"

\* C16 as claimed: a call that failed on a short read, a short write or a size
\* mismatch leaves the device with a fresh connection, so when the next request
\* of the device is written no byte of an earlier response is waiting on the
\* stream the device reads from.
C16_AsClaimed ==
    [][\A t \in Threads : Sends(t) => from_server = <<>>]_vars


\* thread t calls write() and returns from it in this step
Writes(t) == thr'[t].op = "write" /\ thr'[t].call = thr[t].call + 1

\* C17 as claimed: a write() on the remote device while the server is up puts
\* one WriteRequest, header and payload, on the socket and returns the size it
\* was called with.
C17_AsClaimed ==
    [][\A t \in Threads : (Writes(t) /\ remote = "up") =>
          /\ thr'[t].ret = thr'[t].size
          /\ Len(to_server') = Len(to_server) + 1
          /\ to_server'[Len(to_server')].bytes =
                 write_request_bytes(write_request_to_network(
                     thr'[t].buf, U32(thr'[t].size), U32(thr'[t].offset)))]_vars


\* the size field of the response in s2c, in host order
ResponseSize == ntohl(FromMem(SubSeq(s2c, 1, 4)))

C19_AsClaimed ==
    ev.op = "write" => ResponseSize = U32(lw.ret)

\* C20 as claimed: a request whose pread or pwrite failed is answered with a
\* response that reports 0 bytes, and the server stays in the request loop of
\* the same connection.
C20_AsClaimed ==
    (ev.op \in {"read", "write"} /\ ev.failed) =>
        /\ ResponseSize = U32(0)
        /\ spc = "dispatch"


(***************************************************************************)
(* More claims about blockv_fuse, checked under SpecFuse                   *)
(***************************************************************************)
\* C21 as claimed: an fs_truncate on a memory device whose content an earlier
\* fs_truncate has allocated (with any size, 0 too) does not allocate again:
\* unless it is out of memory it returns -EPERM, and the device's size and
\* content stay as they were.
C21_AsClaimed ==
    (/\ fsev.op = "truncate"
     /\ fsev.before[fsev.path].kind = "memory"
     /\ fsev.before[fsev.path].allocated
     /\ fsev.ret # -EIO)
       => (fsev.ret = -EPERM /\ block_devices = fsev.before)


(***************************************************************************)
(* Claims about the registry, checked under SpecRegistry                   *)
(***************************************************************************)
\* C22 as claimed: after add_memory_based_block_device(path), on a path with an
\* entry too, the registry holds the new empty memory device at that path.
C22_AsClaimed ==
    fsev.op = "add_memory" => get_block_device(fsev.path) = fsev.device

\* a remote device was added under some path with this target
AddedWithTarget(target) ==
    \E path \in Paths : /\ block_devices[path].kind = "network"
                        /\ block_devices[path].target = target

\* C23 as claimed: once a remote device has been added with a target, a lookup
\* of '/' followed by the target finds a remote device with that target, as a
\* lookup of the path it was added under does.
C23_AsClaimed ==
    \A target \in Targets :
        (/\ fsev.op = "get"
         /\ fsev.path = TargetPath(target)
         /\ AddedWithTarget(target))
           => (fsev.device.kind = "network" /\ fsev.device.target = target)


(***************************************************************************)
(* More claims about the filesystem callbacks, checked under SpecFuse      *)
(***************************************************************************)
\* fs_read called the remote device's read and the exchange with the server
\* failed, or fs_write called the remote device's write, which exchanges
\* nothing and reports 0 bytes
RpcFailed ==
    /\ fsev.op \in {"read", "write"}
    /\ fsev.invoked
    /\ fsev.before[fsev.path].kind = "network"
    /\ fsev.op = "read" => ~fsev.rpc_ok

\* C24 as claimed: when the exchange of a remote read or write fails, fs_read
\* or fs_write returns a byte count, zero or more, never an error code.
C24_AsClaimed == RpcFailed => fsev.ret >= 0

\* C24: when the exchange of a remote read or write fails, fs_read or fs_write
\* returns -EIO, or 0 when the size it passed to the device was 0.
C24_ErrorCode ==
    RpcFailed => fsev.ret = (IF fsev.passed = U64(0) THEN 0 ELSE -EIO)

C24_Witness == RpcFailed /\ fsev.op = "read" /\ fsev.ret = -EIO


\* C25: fs_create on a path without an entry adds an empty memory device
\* there, changes no other entry and returns 0; on a path with an entry it
\* leaves the registry as it is and returns -EEXIST when the exclusive flag is
\* set, 0 when it is not.
C25_Create ==
    fsev.op = "create" =>
        IF fsev.before[fsev.path] = NoDevice
        THEN /\ fsev.ret = 0
             /\ block_devices =
                   [fsev.before EXCEPT ![fsev.path] = memory_based_block_device]
        ELSE /\ block_devices = fsev.before
             /\ fsev.ret = (IF fsev.exclusive THEN -EEXIST ELSE 0)

\* an exclusive create of a path that holds a memory device with content
C25_Witness ==
    /\ fsev.op = "create"
    /\ fsev.exclusive
    /\ fsev.ret = -EEXIST
    /\ block_devices[fsev.path].kind = "memory"
    /\ block_devices[fsev.path].size > 0


(***************************************************************************)
(* More claims about network_block_device, checked under SpecClient        *)
(***************************************************************************)
\* thread t has sent its request and has not returned from read()
InExchange(t) == thr[t].pc \in {"size", "payload"}

\* C26 as claimed: at most one thread is between sending its request and the
\* end of read(), that thread holds the mutex and no thread holds it otherwise;
\* and the requests on the connection stand whole, one after the other: none
\* begins before the one before it is complete.
C26_AsClaimed ==
    /\ \A t, u \in Threads : (InExchange(t) /\ InExchange(u)) => t = u
    /\ \A t \in Threads : InExchange(t) <=> nbd_mutex = t
    /\ \A i \in 1..(Len(to_server) - 1) :
          Len(to_server[i].bytes) = read_request_serialized_size


(***************************************************************************)
(* Claims about block_device's lock, checked under SpecDevice              *)
(***************************************************************************)
\* C27: while a thread is inside pwrite no other thread is inside pwrite or
\* pread of the block_device, and a thread that is not between its lock call
\* and its unlock call owns the mutex in no way, after a failed pread or
\* pwrite too.
C27_Locking ==
    /\ \A t, u \in Threads :
          (t # u /\ caller[t].pc = "pwrite") =>
              caller[u].pc \notin {"pread", "pwrite"}
    /\ \A t \in Threads :
          caller[t].pc \in {"idle", "lock", "lock_shared"} =>
              (_mutex.exclusive # t /\ t \notin _mutex.shared)

\* two threads are inside pread at once, one of them after a call of its own
\* that failed
C27_Witness ==
    \E t, u \in Threads :
        /\ t # u
        /\ caller[t].pc = "pread"
        /\ caller[u].pc = "pread"
        /\ _mutex.shared = {t, u}
        /\ caller[t].failed


(***************************************************************************)
(* More claims about the server's dispatch loop, checked under SpecServer  *)
(***************************************************************************)
\* C28 as claimed: the server takes the size and offset of a READ or WRITE
\* from the buffer only when the read() that filled it returned the 9 bytes of
\* the header or more.
C28_AsClaimed ==
    /\ ev.op = "read" => ev.ret >= read_request_serialized_size
    /\ wr.active => wr.first_ret >= write_request_header_size
    /\ lw.called => lw.first_ret >= write_request_header_size

\* C29: when the read() at the top of the loop returns 0 the session ends: the
\* server writes nothing to the client, the image and the last dev.write stay
\* as they were, and the server is back in accept().
C29_Disconnect ==
    [][(spc = "dispatch" /\ c2s = <<>> /\ peer = "closed") =>
          /\ ev'.op = "eof"
          /\ s2c' = <<>>
          /\ dev' = dev
          /\ lw' = lw
          /\ spc' = "accept"]_vars

\* the session of a client that had a WRITE done ends by a read() of 0 bytes
C29_Witness == ev.op = "eof" /\ lw.called /\ spc = "accept"


(***************************************************************************)
(* Claims about rw()'s bounds, checked under SpecFuse                      *)
(***************************************************************************)
\* C30 as claimed: fs_read and fs_write call the device's operation only with
\* offset < size() and a size of at most size() - offset, so that no memcpy
\* of a memory device leaves its content; that holds for an offset + size that
\* wraps too.
C30_AsClaimed ==
    (fsev.op \in {"read", "write"} /\ fsev.invoked) =>
        LET len == virtual_size(fsev.before[fsev.path])
        IN /\ NumLt(fsev.offset, len)
           /\ NumLe(fsev.passed, NumSub(len, fsev.offset))
           /\ ~fsev.overrun


(***************************************************************************)
(* Claims about the other filesystem callbacks, checked under SpecFuse     *)
(***************************************************************************)
\* C31: fs_truncate on a remote device and fs_readlink on a memory device
\* return -EPERM, both return -ENOENT on a path without an entry, and in
\* these cases the registry and its devices are as before.
C31_VariantErrors ==
    fsev.op \in {"truncate", "readlink"} =>
        LET d == fsev.before[fsev.path]
        IN /\ d = NoDevice => (fsev.ret = -ENOENT /\ block_devices = fsev.before)
           /\ (fsev.op = "truncate" /\ d.kind = "network") =>
                 (fsev.ret = -EPERM /\ block_devices = fsev.before)
           /\ (fsev.op = "readlink" /\ d.kind = "memory") =>
                 (fsev.ret = -EPERM /\ block_devices = fsev.before)

\* a readlink of a memory device with content, beside a remote device
C31_Witness ==
    /\ fsev.op = "readlink"
    /\ fsev.ret = -EPERM
    /\ block_devices[fsev.path].kind = "memory"
    /\ block_devices[fsev.path].size > 0
    /\ \E path \in Paths : block_devices[path].kind = "network"


\* the entry at path is kept by a step: it is there afterwards, of the same
\* variant; a remote device is as it was, and a memory device that had its
\* content allocated still has it (a new device would have none)
EntryKept(path) ==
    LET d == block_devices[path]
        e == block_devices'[path]
    IN /\ e # NoDevice
       /\ e.kind = d.kind
       /\ d.kind = "network" => e = d
       /\ d.kind = "memory" => (d.allocated => e.allocated)

\* C32: no filesystem operation removes or replaces an entry of the registry:
\* a path that has an entry keeps it, with its device and variant, over every
\* step.
C32_Monotonic ==
    [][\A path \in Paths : block_devices[path] # NoDevice => EntryKept(path)]_vars

\* a create without O_EXCL on a path that holds a remote device, beside a
\* memory device with content
C32_Witness ==
    /\ fsev.op = "create"
    /\ fsev.ret = 0
    /\ block_devices[fsev.path].kind = "network"
    /\ \E path \in Paths : /\ block_devices[path].kind = "memory"
                           /\ block_devices[path].allocated

\* C36: on a read-only device fs_write returns -EBADF and does not call the
\* device's write, fs_open returns -EACCES for every access mode but O_RDONLY
\* and 0 for O_RDONLY, and fs_read goes on to the device as on a writable one.
C36_ReadOnly ==
    (/\ fsev.op \in {"read", "write", "open"}
     /\ fsev.before[fsev.path] # NoDevice
     /\ virtual_read_only(fsev.before[fsev.path]))
       => /\ fsev.op = "write" =>
                (fsev.ret = -EBADF /\ ~fsev.invoked /\ block_devices = fsev.before)
          /\ fsev.op = "open" =>
                fsev.ret = (IF fsev.result = "O_RDONLY" THEN 0 ELSE -EACCES)
          /\ fsev.op = "read" =>
                (/\ fsev.ret \notin {-EBADF, -EACCES}
                 /\ fsev.invoked <=>
                       NumLt(fsev.offset, virtual_size(fsev.before[fsev.path])))

\* a write on a read-only remote device
C36_Witness ==
    /\ fsev.op = "write"
    /\ fsev.ret = -EBADF
    /\ block_devices[fsev.path].kind = "network"
    /\ block_devices[fsev.path].server_info.read_only # 0

\* C37: fs_symlink on a link path that has an entry returns -EEXIST, opens no
\* socket and leaves the registry and the open descriptors as they were.
C37_SymlinkExists ==
    (fsev.op = "symlink" /\ fsev.before[fsev.path] # NoDevice) =>
        /\ fsev.ret = -EEXIST
        /\ ~fsev.connect.called
        /\ block_devices = fsev.before
        /\ open_fds = fsev.fds

\* a symlink onto a path that holds a memory device with content
C37_Witness ==
    /\ fsev.op = "symlink"
    /\ fsev.ret = -EEXIST
    /\ block_devices[fsev.path].kind = "memory"
    /\ block_devices[fsev.path].allocated


(***************************************************************************)
(* Claims about the server's WRITE handling, checked under SpecServer      *)
(***************************************************************************)
\* C33 as claimed: when payload bytes are missing and the read() in the
\* collection loop returns 0 (the peer has closed) or -1 (the connection was
\* reset), the server leaves the loop.
C33_AsClaimed ==
    [][(spc = "collect" /\ c2s = <<>> /\ peer \in {"closed", "reset"}) =>
          spc' # "collect"]_vars

\* C34 as claimed: the payload bytes taken from the first read(), the bytes
\* received less the 9 of the header, are between 0 and the request's size,
\* whatever the first read() returned: the first memcpy stays inside the
\* allocation and remaining_bytes starts between 0 and the size.
C34_AsClaimed ==
    [][\A k \in 1..Len(c2s) :
          (WriteReceived(k) /\ ev'.ret = k /\ ev'.kind = WRITE
             /\ ev'.op \in {"write", "partial", "out_of_bounds"})
            => /\ k >= write_request_header_size
               /\ NumLe(buf_size_in_this_message(k), WriteHeader(k).size)
               /\ NumLe(initial_remaining_bytes(WriteHeader(k).size,
                                                buf_size_in_this_message(k)),
                        Widen(WriteHeader(k).size, 8))]_vars


(***************************************************************************)
(* Claims about the loops and the mutex of network_block_device::read,     *)
(* checked under SpecClient                                                *)
(***************************************************************************)
\* C35: in the payload loop of read() response_buf_offset and remaining_bytes
\* add up to 4 + the requested size, remaining_bytes is not negative and
\* nothing is stored behind the end of response_buf, however the payload is
\* split over the reads; and when the loop is left for the memcpy, the last
\* read() has brought remaining_bytes to 0 and the payload has the requested
\* size.
C35_PayloadLoop ==
    /\ [](\A t \in Threads : thr[t].pc = "payload" =>
             /\ thr[t].remaining_bytes \in 0..thr[t].size
             /\ thr[t].response_buf_offset + thr[t].remaining_bytes
                   = read_response_metadata_size + thr[t].size
             /\ Len(thr[t].response_buf)
                   = read_response_metadata_size + thr[t].size)
    /\ [][\A t \in Threads :
             (thr[t].pc = "payload" /\ Returns(t) /\ thr'[t].ret # 0) =>
                 /\ thr[t].remaining_bytes - Len(Taken) = 0
                 /\ Len(PayloadRead(t)) = thr[t].size
                 /\ thr'[t].ret = thr[t].size]_vars

\* a payload of 2 bytes of which one has arrived and one is missing
C35_Witness ==
    \E t \in Threads :
        /\ thr[t].pc = "payload"
        /\ thr[t].size = 2
        /\ thr[t].response_buf_offset > read_response_metadata_size
        /\ thr[t].remaining_bytes > 0


\* C39: a thread that has returned from read(), by whichever return, does not
\* hold the mutex, and a thread that waits for the mutex gets it, when the
\* socket calls of the read() that holds it return.
C39_Released ==
    /\ [](\A t \in Threads : nbd_mutex = t => InExchange(t))
    /\ \A t \in Threads : (thr[t].pc = "lock") ~> (thr[t].pc # "lock")

\* a thread that has been through read() before waits for the mutex while the
\* other is in its exchange, which fails: the server is gone
C39_Witness ==
    \E t, u \in Threads :
        /\ thr[t].pc = "lock"
        /\ thr[t].call > 1
        /\ InExchange(u)
        /\ nbd_mutex = u
        /\ remote = "down"

\* C38: the greeting carries the backing store's read-only flag and the low 32
\* bits of its size (the announced device_size and the backing size differ by
\* a multiple of 2^32, and are equal exactly when the size is below 2^32), and
\* after a successful connect the Remote device's read_only() and size() are
\* the announced values.
C38_Greeting ==
    (pstage \in {"greeted", "connected"} /\ pin.fn = "greeting") =>
        LET announced == <<pout.sent[5], pout.sent[6], pout.sent[7], pout.sent[8]>>
            difference == NumSub(pin.block_device_size, Widen(announced, 8))
        IN /\ Len(pout.sent) = server_info_serialized_size
           /\ pout.sent[9] = (IF pin.read_only THEN 1 ELSE 0)
           /\ SubSeq(difference, 5, 8) = U32(0)
           /\ (Widen(announced, 8) = pin.block_device_size)
                  <=> NumLt(pin.block_device_size, <<0, 0, 0, 1, 0, 0, 0, 0>>)
           /\ (pstage = "connected" /\ pout.ret = 0) =>
                  /\ virtual_size(pout.device) = Widen(announced, 8)
                  /\ virtual_read_only(pout.device) = pin.read_only

\* a backing store above 2^32 bytes, read-only, and a client that connected:
\* its size() is not the backing size
C38_Witness ==
    /\ pstage = "connected"
    /\ pin.fn = "greeting"
    /\ pout.ret = 0
    /\ pin.read_only
    /\ ~NumLt(pin.block_device_size, <<0, 0, 0, 1, 0, 0, 0, 0>>)
    /\ virtual_size(pout.device) # pin.block_device_size

====
